---------------------------- MODULE Spec2Model ----------------------------
(***************************************************************************)
(* A model of the storage core of joujoudb: the B+ tree index              *)
(* (src/src/indexes/btree.rs over the page layouts of                      *)
(* src/src/pages/btree.rs) and the buffer pool (src/src/cache).            *)
(*                                                                         *)
(* The module holds several specifications over one set of variables:      *)
(*   Spec      the B+ tree driven by one caller at a time, each            *)
(*             operation one step;                                         *)
(*   SpecIns   the B+ tree driven by threads that insert disjoint key      *)
(*             sets, one step per latch acquisition;                       *)
(*   SpecMix   the same with threads that search, insert and delete;       *)
(*   SpecFair  the workload of SpecMix, one operation a thread, every      *)
(*             thread scheduled;                                           *)
(*   SpecCache the buffer pool (MemCache, LRU, PageCacheInner::new_page)   *)
(*             driven by several threads, one step per critical section    *)
(*             or atomic access;                                           *)
(*   SpecSeq   the buffer pool driven by one call at a time, with up to    *)
(*             MaxStorages storages attached;                              *)
(*   SpecWb    the page cache with its writeback thread and the drop of    *)
(*             the facade, every thread scheduled;                         *)
(*   SpecHeap  the slotted heap page (src/src/pages/heappage.rs), one      *)
(*             call a step;                                                *)
(*   SpecFile  FileStorage (src/src/storage/backend.rs): create, open,     *)
(*             allocate_page, read_page, write_page;                       *)
(*   SpecTable Table (src/src/table.rs) over the buffer pool, driven by    *)
(*             several threads;                                            *)
(*   SpecTableSeq  Table and its iterator driven by one caller;            *)
(*   SpecTableWb   Table driven by one caller beside the writeback thread; *)
(*   SpecLeaf  insert into a tree that starts as one leaf of any content,  *)
(*             the fast path and the slow path as two steps.               *)
(***************************************************************************)
EXTENDS Integers, Sequences, FiniteSets, TLC

(***************************************************************************)
(* Bounds of the model.                                                    *)
(***************************************************************************)
\* src/src/pages/btree.rs:7 sets 341; the model keeps the code's arithmetic
\* and scales the page down so that splits happen within a few keys.
BTREE_BRANCHING_FACTOR == 3
\* keys are 0..MaxKey
MaxKey == 5
\* record ids handed to insert are 1..MaxRid
MaxRid == 2
\* deletes issued in one run of Spec
MaxDeletes == 1

BTREE_NUM_KEYS == BTREE_BRANCHING_FACTOR - 1

PAGE_INVALID == 0
PAGE_RESERVED == 0

Keys == 0..MaxKey
Rids == 1..MaxRid

\* Option<T>: None is the empty tuple, Some(x) the one-element tuple.
None == <<>>
Some(x) == <<x>>

VARIABLES
    \* the index storage
    pages,      \* page id -> page contents (the pages of the index storage)
    root,       \* superblock.root_page_id
    lastPage,   \* the storage's last_page_id
    kv,         \* ghost: the key -> Option<rid> map the tree stands for
    \* Spec
    last,       \* the last operation of Spec and what it returned
    panicked,   \* a panic aborted the caller
    ndel,       \* deletes issued so far
    \* SpecIns, SpecMix
    thr,        \* thread -> its operation, its position in it, the latches it holds
    overlap,    \* ghost: a leaf was split while another thread was inside an operation
    \* the buffer pool and the storages under it; a page is named by the
    \* pair <<storage id, page id>>
    map,             \* PageTable.map: resident page -> frame index
    free_list,       \* PageTable.free_list
    pages_metadata,  \* frame index -> PageMetadata (page_id, counter, dirty)
    frames,          \* frame index -> the bytes in the frame (MemCache.pages)
    eviction_policy, \* the LRU: last_access (oldest first) and the evictable queue
    disk,            \* page -> the bytes stored for the page in its storage's file
    last_page_id,    \* storage_backends: attached storage id -> its last_page_id
    nwrites,         \* writes made through write guards so far (each writes new bytes)
    cth,             \* thread -> its buffer-pool call, its position in it, its latch
    dirty_pages,     \* PageCacheInner.dirty_pages: Option of the set of pages recorded
    wb,              \* the handles of the facade, the writeback thread, the drop
    written,         \* ghost: page -> Option of the bytes last written through a write guard
    \* SpecHeap, SpecTable, SpecFile
    heap,            \* the heap page under test (SpecHeap)
    hist,            \* ghost: slot id -> the tuple inserted under it, and whether deleted
    tbl,             \* thread -> its Table call, its position in it, the guard it keeps
    rows,            \* ghost: the RecordIds returned by Table::insert, with their tuples
    file             \* the file of a FileStorage and the calls on it (SpecFile)

treeVars == <<pages, root, lastPage, kv>>
seqVars == <<last, panicked, ndel>>
concVars == <<thr, overlap>>
wbVars == <<dirty_pages, wb, written>>
cacheVars == <<map, free_list, pages_metadata, frames, eviction_policy, disk,
               last_page_id, nwrites, cth, wbVars>>
btreeVars == <<treeVars, seqVars, concVars>>
tableVars == <<heap, hist, tbl, rows, file>>
vars == <<btreeVars, cacheVars, tableVars>>

(***************************************************************************)
(* Page layouts (src/src/pages/btree.rs).                                  *)
(***************************************************************************)
\* BTreeLeafPage::init
LeafInit == [type |-> "leaf", keys |-> <<>>, vals |-> <<>>, ptrs |-> <<>>,
             next |-> PAGE_INVALID]

\* BTreeInnerPage::init_header
InnerInitHeader == [type |-> "inner", keys |-> <<>>, vals |-> <<>>, ptrs |-> <<>>,
                    next |-> PAGE_INVALID]

\* BTreeInnerPage::init
InnerInit(key, left_pointer, right_pointer) ==
    [type |-> "inner", keys |-> <<key>>, vals |-> <<>>,
     ptrs |-> <<left_pointer, right_pointer>>, next |-> PAGE_INVALID]

\* slice::binary_search on s[lo..hi) (0-based): <<TRUE, pos>> for Ok(pos),
\* <<FALSE, pos>> for Err(pos)
RECURSIVE BinarySearch(_, _, _, _)
BinarySearch(s, key, lo, hi) ==
    IF lo >= hi THEN <<FALSE, lo>>
    ELSE LET mid == (lo + hi) \div 2
         IN  IF s[mid + 1] = key THEN <<TRUE, mid>>
             ELSE IF s[mid + 1] < key THEN BinarySearch(s, key, mid + 1, hi)
             ELSE BinarySearch(s, key, lo, mid)

\* copy_within(pos..n, pos + 1) followed by the store at pos (0-based pos)
InsertAt(s, pos, x) == SubSeq(s, 1, pos) \o <<x>> \o SubSeq(s, pos + 1, Len(s))

\* copy_within(pos + 1..n, pos) followed by num_keys -= 1 (0-based pos)
RemoveAt(s, pos) == SubSeq(s, 1, pos) \o SubSeq(s, pos + 2, Len(s))

\* BTreeLeafPage::search
LeafSearch(page, key) ==
    LET r == BinarySearch(page.keys, key, 0, Len(page.keys))
    IN  IF r[1] THEN Some(page.vals[r[2] + 1]) ELSE None

\* a leaf insert that overwrites the value of a key already present
LeafInsertReplacesDup(page, key, value) ==
    LET r == BinarySearch(page.keys, key, 0, Len(page.keys))
        pos == r[2]
    IN  IF r[1] THEN [kind |-> "ok", page |-> [page EXCEPT !.vals[pos + 1] = value]]
        ELSE IF Len(page.keys) < BTREE_NUM_KEYS
        THEN [kind |-> "ok",
              page |-> [page EXCEPT !.keys = InsertAt(page.keys, pos, key),
                                    !.vals = InsertAt(page.vals, pos, value)]]
        ELSE [kind |-> "split", page |-> page]

\* a leaf insert that appends the pair instead of placing it in key order
LeafInsertAppends(page, key, value) ==
    LET r == BinarySearch(page.keys, key, 0, Len(page.keys))
    IN  IF r[1] THEN [kind |-> "dup", page |-> page]
        ELSE IF Len(page.keys) < BTREE_NUM_KEYS
        THEN [kind |-> "ok",
              page |-> [page EXCEPT !.keys = Append(page.keys, key),
                                    !.vals = Append(page.vals, value)]]
        ELSE [kind |-> "split", page |-> page]

\* BTreeLeafPage::insert: "dup" is the unimplemented!() panic, "split" the
\* SplitLeaf handle (the page is left as it was)
LeafInsert(page, key, value) ==
    LET r == BinarySearch(page.keys, key, 0, Len(page.keys))
        pos == r[2]
    IN  IF r[1] THEN [kind |-> "dup", page |-> page]
        ELSE IF Len(page.keys) < BTREE_NUM_KEYS
        THEN [kind |-> "ok",
              page |-> [page EXCEPT !.keys = InsertAt(page.keys, pos, key),
                                    !.vals = InsertAt(page.vals, pos, value)]]
        ELSE [kind |-> "split", page |-> page]

\* a leaf delete that shifts the keys but not the values
LeafDeleteKeysOnly(page, key) ==
    LET r == BinarySearch(page.keys, key, 0, Len(page.keys))
    IN  IF r[1]
        THEN [ok |-> TRUE, page |-> [page EXCEPT !.keys = RemoveAt(page.keys, r[2])]]
        ELSE [ok |-> FALSE, page |-> page]

\* BTreeLeafPage::delete
LeafDelete(page, key) ==
    LET r == BinarySearch(page.keys, key, 0, Len(page.keys))
    IN  IF r[1]
        THEN [ok |-> TRUE,
              page |-> [page EXCEPT !.keys = RemoveAt(page.keys, r[2]),
                                    !.vals = RemoveAt(page.vals, r[2])]]
        ELSE [ok |-> FALSE, page |-> page]

\* a leaf split that puts the new pair in the right page whatever its key
SplitLeafNewPairRight(lhs, rhs, key, value) ==
    LET lhs_num_keys == Len(lhs.keys)
        split_at == (lhs_num_keys + 1) \div 2
        median_key == lhs.keys[split_at + 1]
        rhs1 == [rhs EXCEPT !.keys = SubSeq(lhs.keys, split_at + 1, lhs_num_keys),
                            !.vals = SubSeq(lhs.vals, split_at + 1, lhs_num_keys)]
        lhs1 == [lhs EXCEPT !.keys = SubSeq(lhs.keys, 1, split_at),
                            !.vals = SubSeq(lhs.vals, 1, split_at)]
        rhs2 == LeafInsert(rhs1, key, value).page
    IN  [lhs |-> lhs1, rhs |-> rhs2, split_key |-> rhs2.keys[1],
         unreachable |-> (key = median_key)]

\* SplitLeaf::split: rhs is a page fresh from BTreeLeafPage::init
SplitLeafSplit(lhs, rhs, key, value) ==
    LET lhs_num_keys == Len(lhs.keys)
        split_at == (lhs_num_keys + 1) \div 2
        median_key == lhs.keys[split_at + 1]
        rhs1 == [rhs EXCEPT !.keys = SubSeq(lhs.keys, split_at + 1, lhs_num_keys),
                            !.vals = SubSeq(lhs.vals, split_at + 1, lhs_num_keys)]
        lhs1 == [lhs EXCEPT !.keys = SubSeq(lhs.keys, 1, split_at),
                            !.vals = SubSeq(lhs.vals, 1, split_at)]
        lhs2 == IF key < median_key THEN LeafInsert(lhs1, key, value).page ELSE lhs1
        rhs2 == IF key > median_key THEN LeafInsert(rhs1, key, value).page ELSE rhs1
    IN  [lhs |-> lhs2, rhs |-> rhs2, split_key |-> rhs2.keys[1],
         unreachable |-> (key = median_key)]

\* an inner search that sends a key equal to a separator to the left child
InnerSearchEqualGoesLeft(page, key) ==
    LET r == BinarySearch(page.keys, key, 0, Len(page.keys))
    IN  page.ptrs[r[2] + 1]

\* BTreeInnerPage::search (called get by the index)
InnerSearch(page, key) ==
    LET r == BinarySearch(page.keys, key, 0, Len(page.keys))
    IN  IF r[1] THEN page.ptrs[r[2] + 2] ELSE page.ptrs[r[2] + 1]

\* BTreeInnerPage::insert
InnerInsert(page, key, right_pointer) ==
    LET r == BinarySearch(page.keys, key, 0, Len(page.keys))
        pos == r[2]
    IN  IF r[1] THEN [kind |-> "dup", page |-> page]
        ELSE IF Len(page.keys) < BTREE_NUM_KEYS
        THEN [kind |-> "ok",
              page |-> [page EXCEPT !.keys = InsertAt(page.keys, pos, key),
                                    !.ptrs = InsertAt(page.ptrs, pos + 1, right_pointer)]]
        ELSE [kind |-> "split", page |-> page]

\* an inner split that leaves the separator it hands up in the left page
SplitInnerKeepsSeparator(lhs, rhs, key, right_pointer) ==
    LET lhs_num_keys == Len(lhs.keys)
        split_at == ((lhs_num_keys + 1) \div 2) - 1
        split_key == lhs.keys[split_at + 1]
        rhs1 == [rhs EXCEPT !.keys = SubSeq(lhs.keys, split_at + 2, lhs_num_keys),
                            !.ptrs = SubSeq(lhs.ptrs, split_at + 2, lhs_num_keys + 1)]
        lhs1 == [lhs EXCEPT !.keys = SubSeq(lhs.keys, 1, split_at + 1),
                            !.ptrs = SubSeq(lhs.ptrs, 1, split_at + 1)]
        rhs2 == IF key > split_key THEN InnerInsert(rhs1, key, right_pointer).page ELSE rhs1
        lhs2 == IF key < split_key THEN InnerInsert(lhs1, key, right_pointer).page ELSE lhs1
    IN  [lhs |-> lhs2, rhs |-> rhs2, split_key |-> split_key,
         unreachable |-> (key = split_key)]

\* SplitInner::split: rhs is a page fresh from BTreeInnerPage::init_header
SplitInnerSplit(lhs, rhs, key, right_pointer) ==
    LET lhs_num_keys == Len(lhs.keys)
        split_at == ((lhs_num_keys + 1) \div 2) - 1
        split_key == lhs.keys[split_at + 1]
        rhs1 == [rhs EXCEPT !.keys = SubSeq(lhs.keys, split_at + 2, lhs_num_keys),
                            !.ptrs = SubSeq(lhs.ptrs, split_at + 2, lhs_num_keys + 1)]
        lhs1 == [lhs EXCEPT !.keys = SubSeq(lhs.keys, 1, split_at),
                            !.ptrs = SubSeq(lhs.ptrs, 1, split_at + 1)]
        rhs2 == IF key > split_key THEN InnerInsert(rhs1, key, right_pointer).page ELSE rhs1
        lhs2 == IF key < split_key THEN InnerInsert(lhs1, key, right_pointer).page ELSE lhs1
    IN  [lhs |-> lhs2, rhs |-> rhs2, split_key |-> split_key,
         unreachable |-> (key = split_key)]


(***************************************************************************)
(* The index (src/src/indexes/btree.rs), as functions of the page store.   *)
(* A result record carries the pages, the storage's last page id, the      *)
(* (split_key, rhs_page_id) handed to the parent (None when nothing        *)
(* split), whether a panic was raised, and the pages set_page_dirty was    *)
(* called on.                                                              *)
(***************************************************************************)
\* StoragePageCache::new_page / allocate_page: the id of the page allocated next
NewPageId(lastP) == lastP + 1

\* the descent of BTree::find_leaf_page from page pid
RECURSIVE FindLeaf(_, _, _)
FindLeaf(pgs, pid, key) ==
    IF pgs[pid].type = "leaf" THEN pid
    ELSE FindLeaf(pgs, InnerSearch(pgs[pid], key), key)

\* BTree::search
Search(pgs, rootId, key) == LeafSearch(pgs[FindLeaf(pgs, rootId, key)], key)

\* the link written by insert_leaf after a split (lhs.set_next_page_id)
SplitLeafLink(lhs, rhs_page_id) == [lhs EXCEPT !.next = rhs_page_id]

\* BTree::insert_leaf on page pid
InsertLeaf(pgs, lastP, pid, key, value) ==
    LET r == LeafInsert(pgs[pid], key, value)
    IN  IF r.kind = "dup"
        THEN [pages |-> pgs, last |-> lastP, carry |-> None, panic |-> TRUE,
              dirty |-> {}]
        ELSE IF r.kind = "ok"
        THEN [pages |-> [pgs EXCEPT ![pid] = r.page], last |-> lastP,
              carry |-> None, panic |-> FALSE, dirty |-> {}]
        ELSE LET rhs_page_id == NewPageId(lastP)
                 s == SplitLeafSplit(pgs[pid], LeafInit, key, value)
             IN  [pages |-> (rhs_page_id :> s.rhs) @@
                            [pgs EXCEPT ![pid] = SplitLeafLink(s.lhs, rhs_page_id)],
                  last |-> rhs_page_id,
                  carry |-> Some(<<s.split_key, rhs_page_id>>),
                  panic |-> s.unreachable,
                  dirty |-> {pid, rhs_page_id}]

\* BTree::insert_inner_r on page pid, after the call on its child returned res
InsertInnerAbsorb(res, pid) ==
    IF res.panic \/ res.carry = None
    THEN [res EXCEPT !.carry = None]
    ELSE LET split_key == res.carry[1][1]
             rhs_page_id == res.carry[1][2]
             r == InnerInsert(res.pages[pid], split_key, rhs_page_id)
         IN  IF r.kind = "dup"
             THEN [res EXCEPT !.carry = None, !.panic = TRUE]
             ELSE IF r.kind = "ok"
             THEN [res EXCEPT !.pages[pid] = r.page, !.carry = None]
             ELSE LET rhs_inner_page_id == NewPageId(res.last)
                      s == SplitInnerSplit(res.pages[pid], InnerInitHeader,
                                           split_key, rhs_page_id)
                  IN  [pages |-> (rhs_inner_page_id :> s.rhs) @@
                                 [res.pages EXCEPT ![pid] = s.lhs],
                       last |-> rhs_inner_page_id,
                       carry |-> Some(<<s.split_key, rhs_inner_page_id>>),
                       panic |-> s.unreachable,
                       dirty |-> res.dirty \cup {pid, rhs_inner_page_id}]

\* BTree::insert_inner_r / insert_leaf, by the type of page pid
RECURSIVE InsertR(_, _, _, _, _)
InsertR(pgs, lastP, pid, key, value) ==
    IF pgs[pid].type = "leaf"
    THEN InsertLeaf(pgs, lastP, pid, key, value)
    ELSE InsertInnerAbsorb(
             InsertR(pgs, lastP, InnerSearch(pgs[pid], key), key, value), pid)

\* the end of BTree::insert_slow_path: a split of the root makes a new root
InsertRootAbsorb(res, root_page_id) ==
    IF res.panic \/ res.carry = None
    THEN [pages |-> res.pages, last |-> res.last, root |-> root_page_id,
          panic |-> res.panic, dirty |-> res.dirty]
    ELSE LET new_root_page_id == NewPageId(res.last)
         IN  [pages |-> (new_root_page_id :>
                            InnerInit(res.carry[1][1], root_page_id, res.carry[1][2]))
                        @@ res.pages,
              last |-> new_root_page_id, root |-> new_root_page_id,
              panic |-> FALSE, dirty |-> res.dirty \cup {new_root_page_id}]

\* BTree::insert_slow_path
InsertSlowPath(pgs, lastP, rootId, key, value) ==
    InsertRootAbsorb(InsertR(pgs, lastP, rootId, key, value), rootId)

\* BTree::insert: the fast path on the leaf, the slow path when it is full
BTreeInsert(pgs, lastP, rootId, key, value) ==
    LET leaf == FindLeaf(pgs, rootId, key)
        r == LeafInsert(pgs[leaf], key, value)
    IN  IF r.kind = "dup"
        THEN [pages |-> pgs, last |-> lastP, root |-> rootId, panic |-> TRUE,
              dirty |-> {}]
        ELSE IF r.kind = "ok"
        THEN [pages |-> [pgs EXCEPT ![leaf] = r.page], last |-> lastP,
              root |-> rootId, panic |-> FALSE, dirty |-> {leaf}]
        ELSE InsertSlowPath(pgs, lastP, rootId, key, value)

\* BTree::delete
BTreeDelete(pgs, rootId, key) ==
    LET leaf == FindLeaf(pgs, rootId, key)
        r == LeafDelete(pgs[leaf], key)
    IN  [ok |-> r.ok, pages |-> [pgs EXCEPT ![leaf] = r.page],
         dirty |-> IF r.ok THEN {leaf} ELSE {}]

\* what key_at / value_at give at a position that is not below num_keys: the
\* slot of the fixed-size array holds whatever was stored there before
StaleEntry == <<-1, 0>>

\* BTreeRangeIterator::next, repeated until it returns None: the items emitted
\* from position pos (0-based) of leaf pid on. fuel bounds the walk.
RECURSIVE IterNext(_, _, _, _)
IterNext(pgs, pid, pos, fuel) ==
    LET leaf == pgs[pid]
    IN  IF fuel = 0 THEN <<>>
        ELSE IF pos >= Len(leaf.keys)
        THEN IF leaf.next = PAGE_INVALID THEN <<>>
             ELSE LET nleaf == pgs[leaf.next]
                      item == IF 0 < Len(nleaf.keys)
                              THEN <<nleaf.keys[1], nleaf.vals[1]>>
                              ELSE StaleEntry
                  IN  <<item>> \o IterNext(pgs, leaf.next, 1, fuel - 1)
        ELSE <<<<leaf.keys[pos + 1], leaf.vals[pos + 1]>>>>
             \o IterNext(pgs, pid, pos + 1, fuel - 1)

\* BTree::iter(start) collected
BTreeIter(pgs, rootId, start) ==
    LET leaf == FindLeaf(pgs, rootId, start)
        pos == BinarySearch(pgs[leaf].keys, start, 0, Len(pgs[leaf].keys))[2]
    IN  IterNext(pgs, leaf, pos, 2 * (MaxKey + 1) + Cardinality(DOMAIN pgs))

(***************************************************************************)
(* Spec: the index used by one caller. BTree::try_new has run: page 1 is   *)
(* the root, an empty leaf. last is the last call: its arguments, what it  *)
(* returned and the pages it handed to set_page_dirty; page PAGE_RESERVED  *)
(* is the superblock, whose root_page_id is the variable root.             *)
(***************************************************************************)
NoOp == [op |-> "new", key |-> 0, rid |-> 0, res |-> None, dirty |-> {}]

\* the threads of SpecIns and SpecMix, before their first operation
Threads == {1, 2}
IdleThread == [pc |-> "idle", op |-> "none", key |-> 0, rid |-> 0, held |-> <<>>,
               target |-> 0, carry |-> None, res |-> None, exp |-> None,
               nops |-> 0, start |-> 0]
ConcIdle ==
    /\ thr = [t \in Threads |-> IdleThread]
    /\ overlap = FALSE

\* CONFIG.PAGE_CACHE_SIZE, scaled down so that the pool fills within two pages
PAGE_CACHE_SIZE == 2
\* pages the storage holds when the pool is created are 0..InitLastPage
InitLastPage == 1
\* new_page is called while last_page_id < MaxPageId
MaxPageId == 2
\* writes made through write guards
MaxWrites == 1

FrameIds == 0..(PAGE_CACHE_SIZE - 1)
\* PAGE_SIZE in cells of two bytes, scaled down so that a heap page fills
\* within a few tuples
PAGE_SIZE == 12
\* the bytes of a page fresh from Page::new
BlankPage == [i \in 1..PAGE_SIZE |-> 0]
EmptyMap == [p \in {} |-> 0]

\* storages attached to one page cache
MaxStorages == 2

\* the page a frame names before it holds one (PageMetadata::new(PAGE_INVALID))
NoPage == <<0, PAGE_INVALID>>

\* the pages of the file of storage sid, and of every attached storage
StoredPages(sid) == {<<sid, p>> : p \in 0..last_page_id[sid]}
AttachedPages == UNION {StoredPages(sid) : sid \in DOMAIN last_page_id}

IdleCacheThread == [pc |-> "idle", op |-> "none", page |-> NoPage, idx |-> 0,
                    mode |-> "none", newid |-> NoPage]

\* a thread that is not inside a call of Table. kept is the guard a call
\* holds while it asks the cache for another page, row the entry of rows an
\* insert fills, rid the argument of get and delete, at and out the position
\* of a TableIterator and the tuples it has yielded, res what the last call
\* returned
IdleTable == [pc |-> "idle", op |-> "none", kept |-> None, row |-> 0,
              rid |-> <<0, 0>>, at |-> <<0, 0>>, out |-> <<>>, res |-> None,
              nops |-> 0]

\* FileStorage::create: page 0 written and fsynced, last_page_id 0. len is
\* the length of the file in cells, data the pages that hold other bytes than
\* zeros, alloc the id each thread's allocate_page is about to write, base
\* the last_page_id the storage started with
FileCreated == [op |-> "create", err |-> "none", open |-> TRUE, len |-> PAGE_SIZE,
                synced |-> TRUE, data |-> {}, last_page_id |-> 0, base |-> 0,
                alloc |-> [t \in Threads |-> None], returned |-> <<>>, failed |-> {}]

\* a thread that is not inside writeback_dirty_pages
NoWriteback == [pc |-> "none", todo |-> {}]

\* PageCache::try_new and cache_storage: the handles held by the user (the
\* PageCache and a StoragePageCache), the writeback thread asleep
FacadeIdle == [handles |-> 2, upgraded |-> FALSE, wt |-> "sleep", drop |-> "none",
               dropper |-> 0, proc |-> [t \in Threads |-> NoWriteback]]

\* MemCache::try_new, LRU::new, PageCache::try_new and cache_storage of a
\* storage whose pages are 0..lastP (StorageId(0))
CacheCreated(lastP) ==
    /\ map = EmptyMap
    /\ free_list = [i \in 1..PAGE_CACHE_SIZE |-> i - 1]
    /\ pages_metadata = [i \in FrameIds |->
                            [page_id |-> NoPage, counter |-> 0, dirty |-> FALSE]]
    /\ frames = [i \in FrameIds |-> BlankPage]
    /\ eviction_policy = [last_access |-> <<>>, queue |-> {}]
    /\ disk = [k \in {0} \X (0..lastP) |-> BlankPage]
    /\ last_page_id = (0 :> lastP)
    /\ nwrites = 0
    /\ cth = [t \in Threads |-> IdleCacheThread]
    /\ dirty_pages = None
    /\ wb = FacadeIdle
    /\ written = [k \in {} |-> None]
    /\ heap = BlankPage
    /\ hist = [slots |-> <<>>, last |-> [op |-> "none", arg |-> 0, err |-> "none", slot_id |-> 0]]
    /\ tbl = [t \in Threads |-> IdleTable]
    /\ rows = <<>>
    /\ file = FileCreated

\* the cache over a storage of InitLastPage + 1 pages
CacheIdle == CacheCreated(InitLastPage)

Init ==
    /\ pages = (1 :> LeafInit)
    /\ root = 1
    /\ lastPage = 1
    /\ kv = [k \in Keys |-> None]
    /\ last = NoOp
    /\ panicked = FALSE
    /\ ndel = 0
    /\ ConcIdle
    /\ CacheIdle

\* BTree::insert(key, rid).unwrap()
Insert(key, rid) ==
    /\ ~panicked
    /\ LET r == BTreeInsert(pages, lastPage, root, key, rid)
       IN  /\ pages' = r.pages
           /\ lastPage' = r.last
           /\ root' = r.root
           /\ panicked' = r.panic
           /\ kv' = IF kv[key] # None THEN kv ELSE [kv EXCEPT ![key] = Some(rid)]
           /\ last' = [op |-> "insert", key |-> key, rid |-> rid,
                       res |-> IF r.panic THEN Some("panic") ELSE Some("Ok"),
                       dirty |-> r.dirty]
    /\ UNCHANGED <<ndel, concVars, cacheVars, tableVars>>

\* BTree::delete(key)
Delete(key) ==
    /\ ~panicked
    /\ ndel < MaxDeletes
    /\ LET r == BTreeDelete(pages, root, key)
       IN  /\ pages' = r.pages
           /\ kv' = [kv EXCEPT ![key] = None]
           /\ last' = [op |-> "delete", key |-> key, rid |-> 0,
                       res |-> IF r.ok THEN Some("Ok") ELSE Some("KeyNotFound"),
                       dirty |-> r.dirty]
    /\ ndel' = ndel + 1
    /\ UNCHANGED <<root, lastPage, panicked, concVars, cacheVars, tableVars>>

\* BTree::iter(start).collect()
Iter(start) ==
    /\ ~panicked
    /\ last' = [op |-> "iter", key |-> start, rid |-> 0,
                res |-> BTreeIter(pages, root, start), dirty |-> {}]
    /\ UNCHANGED <<treeVars, panicked, ndel, concVars, cacheVars, tableVars>>

\* The record id the caller of Spec hands to insert: neighbouring keys get
\* different ids, and so does a key inserted again after a delete.
RidFor(key) == 1 + ((key + ndel) % MaxRid)

Next ==
    \/ \E key \in Keys : Insert(key, RidFor(key))
    \/ \E key \in Keys : Delete(key)
    \/ \E start \in Keys : Iter(start)

Spec == Init /\ [][Next]_vars


(***************************************************************************)
(* SpecIns and SpecMix: the index used by several threads. A step is one   *)
(* latch acquisition (with the releases the code makes right after it) or  *)
(* the work done on a latched leaf. PageRef is a shared latch, PageRefMut  *)
(* an exclusive one; no page is evicted.                                   *)
(***************************************************************************)
\* keys of the threads' operations are 0..MaxConcKey
MaxConcKey == 5
\* operations one thread issues in SpecMix
MaxOps == 2
\* keys in the tree when SpecMix starts
Preload == 3
\* keys of the threads' operations in SpecMix are 0..MaxMixKey
MaxMixKey == 4

ConcKeys == 0..MaxConcKey
MixKeys == 0..MaxMixKey
\* the keys thread t inserts in SpecIns: the threads' key sets are disjoint
OwnKeys(t) == {k \in ConcKeys : k % Cardinality(Threads) = t - 1}

SLatch(p) == [p |-> p, m |-> "S"]
XLatch(p) == [p |-> p, m |-> "X"]

HoldsAny(t, p) == \E i \in 1..Len(thr[t].held) : thr[t].held[i].p = p
HoldsX(t, p) == \E i \in 1..Len(thr[t].held) : thr[t].held[i] = XLatch(p)
\* RwLock::read and RwLock::write return
CanRead(t, p) == \A u \in Threads \ {t} : ~HoldsX(u, p)
CanWrite(t, p) == \A u \in Threads \ {t} : ~HoldsAny(u, p)

Running(t) == thr[t].pc \notin {"idle", "panicked"}
Quiescent == \A t \in Threads : ~Running(t)

\* a descent that releases the parent before it requests the child
ReleasedBeforeChild(p) == <<>>

\* a descent that releases everything before it requests the exclusive latch
ReleasedBeforeUpgrade(prev) == <<>>

\* an insert that keeps its leaf latched while it enters the slow path
LeafKeptIntoSlowPath(leaf) == <<XLatch(leaf)>>

\* BTree::insert: what a thread holds when it calls insert_slow_path
\* (drop(leaf_page_ref) comes first)
HeldIntoSlowPath(leaf) == <<>>

\* find_leaf_page / find_leaf_page_mut: what a thread holds while it requests
\* the child of inner page p (the parent's PageRef is dropped only after the
\* child's is obtained)
HeldAtInner(p) == <<SLatch(p)>>

\* find_leaf_page_mut: what a thread holds while it requests the exclusive
\* latch of the leaf: the latch it came through (the parent's, or the
\* superblock's when the root is the leaf), the leaf's PageRef being dropped
HeldWhileUpgrading(prev) == <<prev>>

\* what the sequential map answers to the operation of thread t, and the map
\* after it
Expected(t) ==
    CASE thr[t].op = "search" -> Some(kv[thr[t].key])
      [] thr[t].op = "insert" ->
             IF kv[thr[t].key] # None THEN Some("panic") ELSE Some("Ok")
      [] thr[t].op = "delete" ->
             IF kv[thr[t].key] # None THEN Some("Ok") ELSE Some("KeyNotFound")
MapAfter(t) ==
    CASE thr[t].op = "search" -> kv
      [] thr[t].op = "insert" ->
             IF kv[thr[t].key] # None THEN kv
             ELSE [kv EXCEPT ![thr[t].key] = Some(thr[t].rid)]
      [] thr[t].op = "delete" -> [kv EXCEPT ![thr[t].key] = None]

\* a thread calls search, insert or delete
Begin(t, op, key, rid) ==
    /\ thr[t].pc = "idle"
    /\ thr' = [thr EXCEPT ![t] = [IdleThread EXCEPT !.pc = "sb", !.op = op,
                  !.key = key, !.rid = rid, !.nops = thr[t].nops + 1,
                  !.start = lastPage]]
    /\ UNCHANGED <<treeVars, seqVars, overlap, cacheVars, tableVars>>

\* the page reached by a descent under shared latches; prev is the latch the
\* thread came through
Arrive(t, c, prev, keepPrev) ==
    IF pages[c].type = "inner"
    THEN [thr[t] EXCEPT !.held = HeldAtInner(c),
                        !.target = InnerSearch(pages[c], thr[t].key), !.pc = "at"]
    ELSE IF thr[t].op = "search"
    THEN [thr[t] EXCEPT !.held = <<SLatch(c)>>, !.pc = "read"]
    ELSE [thr[t] EXCEPT !.held = IF keepPrev THEN HeldWhileUpgrading(prev) ELSE <<>>,
                        !.target = c, !.pc = "upgrade"]

\* find_leaf_page(_mut): get_page(PAGE_RESERVED), and the root id read from it
AcquireSuperblock(t) ==
    /\ thr[t].pc = "sb"
    /\ CanRead(t, PAGE_RESERVED)
    /\ thr' = [thr EXCEPT ![t].held = <<SLatch(PAGE_RESERVED)>>,
                          ![t].target = root, ![t].pc = "root"]
    /\ UNCHANGED <<treeVars, seqVars, overlap, cacheVars, tableVars>>

\* find_leaf_page(_mut): get_page(superblock.root_page_id); the superblock is
\* released at the end of the block, unless the root is the leaf to upgrade
AcquireRoot(t) ==
    /\ thr[t].pc = "root"
    /\ CanRead(t, thr[t].target)
    /\ thr' = [thr EXCEPT ![t] = Arrive(t, thr[t].target, SLatch(PAGE_RESERVED), TRUE)]
    /\ UNCHANGED <<treeVars, seqVars, overlap, cacheVars, tableVars>>

\* find_leaf_page(_mut): get_page(child) from an inner page
AcquireChild(t) ==
    /\ thr[t].pc = "at"
    /\ CanRead(t, thr[t].target)
    /\ thr' = [thr EXCEPT ![t] =
                  Arrive(t, thr[t].target, thr[t].held[1], Len(thr[t].held) > 0)]
    /\ UNCHANGED <<treeVars, seqVars, overlap, cacheVars, tableVars>>

\* find_leaf_page_mut: get_page_mut(leaf); what was held is released on return
Upgrade(t) ==
    /\ thr[t].pc = "upgrade"
    /\ CanWrite(t, thr[t].target)
    /\ thr' = [thr EXCEPT ![t].held = <<XLatch(thr[t].target)>>, ![t].pc = "leaf"]
    /\ UNCHANGED <<treeVars, seqVars, overlap, cacheVars, tableVars>>

\* BTree::search on the leaf it holds
ReadLeaf(t) ==
    /\ thr[t].pc = "read"
    /\ thr' = [thr EXCEPT ![t].res = Some(LeafSearch(pages[thr[t].held[1].p], thr[t].key)),
                          ![t].exp = Expected(t),
                          ![t].held = <<>>, ![t].pc = "idle"]
    /\ UNCHANGED <<treeVars, seqVars, overlap, cacheVars, tableVars>>

\* BTree::insert (fast path) and BTree::delete on the leaf they hold
LeafOp(t) ==
    /\ thr[t].pc = "leaf"
    /\ LET leaf == thr[t].held[1].p
           ins == LeafInsert(pages[leaf], thr[t].key, thr[t].rid)
           del == LeafDelete(pages[leaf], thr[t].key)
       IN  IF thr[t].op = "insert"
           THEN IF ins.kind = "split"
                THEN /\ thr' = [thr EXCEPT ![t].held = HeldIntoSlowPath(leaf),
                                           ![t].pc = "slow_sb"]
                     /\ UNCHANGED <<pages, kv>>
                ELSE /\ pages' = [pages EXCEPT ![leaf] = ins.page]
                     /\ kv' = MapAfter(t)
                     /\ thr' = [thr EXCEPT
                           ![t].res = IF ins.kind = "dup" THEN Some("panic") ELSE Some("Ok"),
                           ![t].exp = Expected(t),
                           ![t].held = <<>>,
                           ![t].pc = IF ins.kind = "dup" THEN "panicked" ELSE "idle"]
           ELSE /\ pages' = [pages EXCEPT ![leaf] = del.page]
                /\ kv' = MapAfter(t)
                /\ thr' = [thr EXCEPT
                      ![t].res = IF del.ok THEN Some("Ok") ELSE Some("KeyNotFound"),
                      ![t].exp = Expected(t),
                      ![t].held = <<>>, ![t].pc = "idle"]
    /\ UNCHANGED <<root, lastPage, seqVars, overlap, cacheVars, tableVars>>

\* insert_slow_path: get_page_mut(PAGE_RESERVED)
SlowAcquireSuperblock(t) ==
    /\ thr[t].pc = "slow_sb"
    /\ CanWrite(t, PAGE_RESERVED)
    /\ thr' = [thr EXCEPT ![t].held = <<XLatch(PAGE_RESERVED)>>,
                          ![t].target = root, ![t].pc = "slow_root"]
    /\ UNCHANGED <<treeVars, seqVars, overlap, cacheVars, tableVars>>

\* a slow path that releases the pages above the one it latches, the
\* superblock excepted
SlowArriveReleasing(t, c) ==
    IF pages[c].type = "inner"
    THEN [thr[t] EXCEPT !.held = <<XLatch(PAGE_RESERVED), XLatch(c)>>,
                        !.target = InnerSearch(pages[c], thr[t].key),
                        !.pc = "slow_at"]
    ELSE [thr[t] EXCEPT !.held = <<XLatch(PAGE_RESERVED), XLatch(c)>>,
                        !.pc = "slow_leaf"]

\* a page latched by the slow path: an inner page names the next child
SlowArrive(t, c) ==
    IF pages[c].type = "inner"
    THEN [thr[t] EXCEPT !.held = Append(thr[t].held, XLatch(c)),
                        !.target = InnerSearch(pages[c], thr[t].key),
                        !.pc = "slow_at"]
    ELSE [thr[t] EXCEPT !.held = Append(thr[t].held, XLatch(c)), !.pc = "slow_leaf"]

\* insert_slow_path: get_page_mut(root_page_id)
SlowAcquireRoot(t) ==
    /\ thr[t].pc = "slow_root"
    /\ CanWrite(t, thr[t].target)
    /\ thr' = [thr EXCEPT ![t] = SlowArrive(t, thr[t].target)]
    /\ UNCHANGED <<treeVars, seqVars, overlap, cacheVars, tableVars>>

\* insert_inner_r: get_page_mut(child_page_id), every ancestor still held
SlowAcquireChild(t) ==
    /\ thr[t].pc = "slow_at"
    /\ CanWrite(t, thr[t].target)
    /\ thr' = [thr EXCEPT ![t] = SlowArrive(t, thr[t].target)]
    /\ UNCHANGED <<treeVars, seqVars, overlap, cacheVars, tableVars>>

\* insert_leaf on the leaf at the end of the latched path
SlowLeaf(t) ==
    /\ thr[t].pc = "slow_leaf"
    /\ LET leaf == thr[t].held[Len(thr[t].held)].p
           r == InsertLeaf(pages, lastPage, leaf, thr[t].key, thr[t].rid)
       IN  /\ pages' = r.pages
           /\ lastPage' = r.last
           /\ kv' = MapAfter(t)
           /\ overlap' = (overlap \/ (r.carry # None /\ \E u \in Threads \ {t} : Running(u)))
           /\ thr' = [thr EXCEPT
                 ![t].carry = r.carry,
                 ![t].exp = Expected(t),
                 ![t].res = IF r.panic THEN Some("panic") ELSE None,
                 ![t].held = IF r.panic THEN <<>> ELSE thr[t].held,
                 ![t].pc = IF r.panic THEN "panicked" ELSE "slow_unwind"]
    /\ UNCHANGED <<root, seqVars, cacheVars, tableVars>>

\* the returns of insert_inner_r and the end of insert_slow_path: the page
\* above the one returning takes the separator, then the page returning is
\* released; the last return makes the new root and releases the superblock
SlowUnwind(t) ==
    /\ thr[t].pc = "slow_unwind"
    /\ LET n == Len(thr[t].held)
           res == [pages |-> pages, last |-> lastPage, carry |-> thr[t].carry,
                   panic |-> FALSE, dirty |-> {}]
       IN  IF n > 2
           THEN LET r == InsertInnerAbsorb(res, thr[t].held[n - 1].p)
                IN  /\ pages' = r.pages
                    /\ lastPage' = r.last
                    /\ root' = root
                    /\ thr' = [thr EXCEPT
                          ![t].carry = r.carry,
                          ![t].res = IF r.panic THEN Some("panic") ELSE None,
                          ![t].held = IF r.panic THEN <<>>
                                      ELSE SubSeq(thr[t].held, 1, n - 1),
                          ![t].pc = IF r.panic THEN "panicked" ELSE "slow_unwind"]
           ELSE LET r == InsertRootAbsorb(res, thr[t].held[2].p)
                IN  /\ pages' = r.pages
                    /\ lastPage' = r.last
                    /\ root' = r.root
                    /\ thr' = [thr EXCEPT ![t].carry = None, ![t].res = Some("Ok"),
                                          ![t].held = <<>>, ![t].pc = "idle"]
    /\ UNCHANGED <<kv, seqVars, overlap, cacheVars, tableVars>>

\* the steps inside an insert
InsertSteps(t) ==
    \/ AcquireSuperblock(t)
    \/ AcquireRoot(t)
    \/ AcquireChild(t)
    \/ Upgrade(t)
    \/ LeafOp(t)
    \/ SlowAcquireSuperblock(t)
    \/ SlowAcquireRoot(t)
    \/ SlowAcquireChild(t)
    \/ SlowLeaf(t)
    \/ SlowUnwind(t)

\* the record id a thread hands to insert
ConcRid(t, key) == 1 + ((key + thr[t].nops) % MaxRid)

\* SpecIns: each thread inserts the keys of its own set, each once, in any order
BeginOwnInsert(t) ==
    \E key \in OwnKeys(t) :
        /\ kv[key] = None
        /\ Begin(t, "insert", key, ConcRid(t, key))

InitTree ==
    /\ pages = (1 :> LeafInit)
    /\ root = 1
    /\ lastPage = 1
    /\ kv = [k \in Keys \cup ConcKeys |-> None]

SeqIdle ==
    /\ last = NoOp
    /\ panicked = FALSE
    /\ ndel = 0

InitIns == InitTree /\ SeqIdle /\ ConcIdle /\ CacheIdle

NextIns == \E t \in Threads : BeginOwnInsert(t) \/ InsertSteps(t)

SpecIns == InitIns /\ [][NextIns]_vars

\* SpecMix: the threads search, insert and delete any key, MaxOps operations
\* each, on a tree that holds the keys 0..Preload-1, inserted in that order
RECURSIVE Preloaded(_)
Preloaded(n) ==
    IF n = 0 THEN [pages |-> (1 :> LeafInit), last |-> 1, root |-> 1, panic |-> FALSE]
    ELSE LET t == Preloaded(n - 1)
         IN  BTreeInsert(t.pages, t.last, t.root, n - 1, 1 + ((n - 1) % MaxRid))

InitMix ==
    /\ pages = Preloaded(Preload).pages
    /\ root = Preloaded(Preload).root
    /\ lastPage = Preloaded(Preload).last
    /\ kv = [k \in Keys \cup ConcKeys |->
                IF k < Preload THEN Some(1 + (k % MaxRid)) ELSE None]
    /\ SeqIdle
    /\ ConcIdle
    /\ CacheIdle

BeginAny(t) ==
    /\ thr[t].nops < MaxOps
    /\ \E key \in MixKeys, op \in {"search", "insert", "delete"} :
           Begin(t, op, key, ConcRid(t, key))

NextMix == \E t \in Threads : BeginAny(t) \/ InsertSteps(t) \/ ReadLeaf(t)

SpecMix == InitMix /\ [][NextMix]_vars

\* SpecFair: the workload of SpecMix with MaxFairOps operations a thread and
\* every thread scheduled: a thread that can take a step of its operation
\* (its latch request can be granted, or it holds what it needs) eventually
\* takes one
MaxFairOps == 1

BeginFair(t) ==
    /\ thr[t].nops < MaxFairOps
    /\ \E key \in MixKeys, op \in {"search", "insert", "delete"} :
           Begin(t, op, key, ConcRid(t, key))

NextFair == \E t \in Threads : BeginFair(t) \/ InsertSteps(t) \/ ReadLeaf(t)

SpecFair ==
    /\ InitMix
    /\ [][NextFair]_vars
    /\ \A t \in Threads : WF_vars(InsertSteps(t) \/ ReadLeaf(t))

(***************************************************************************)
(* SpecCache: the buffer pool (src/src/cache) used by several threads.     *)
(* A step is one critical section of the page table or of the eviction     *)
(* policy, one latch acquisition, or one access to an atomic counter. A    *)
(* thread holds at most one guard; it calls new_page, get_page or          *)
(* get_page_mut of PageCacheInner, writes through the write guard it holds *)
(* and drops the guard. In SpecCache one storage, StorageId(0), is         *)
(* attached.                                                               *)
(***************************************************************************)
\* LRU (src/src/cache/lru.rs): last_access is kept as the pages in the
\* order of their last access, oldest first; queue is the set of pages in
\* the priority queue, whose priority is that order
SeqWithout(q, x) == SelectSeq(q, LAMBDA y : y # x)
SeqElems(q) == {q[i] : i \in 1..Len(q)}

RecordAccess(lru, page_id) ==
    [last_access |-> Append(SeqWithout(lru.last_access, page_id), page_id),
     queue |-> lru.queue \cup {page_id}]

SetEvictable(lru, page_id) ==
    IF page_id \in SeqElems(lru.last_access)
    THEN [lru EXCEPT !.queue = @ \cup {page_id}]
    ELSE lru

\* a policy that leaves a page that is being pinned in the queue
StaysQueued(lru, page_id) == lru

SetUnevictable(lru, page_id) == [lru EXCEPT !.queue = @ \ {page_id}]

LruRemove(lru, page_id) ==
    [last_access |-> SeqWithout(lru.last_access, page_id),
     queue |-> lru.queue \ {page_id}]

\* LRU::evict: the page of the queue accessed longest ago
LruEvict(lru) ==
    LET cand == SelectSeq(lru.last_access, LAMBDA y : y \in lru.queue)
    IN  IF cand = <<>> THEN [victim |-> None, lru |-> lru]
        ELSE [victim |-> Some(cand[1]),
              lru |-> [lru EXCEPT !.queue = @ \ {cand[1]}]]

\* a latch that lets readers in beside a writer
GrantedBesideWriter(t, i) == TRUE

\* RwLock::read and RwLock::write on the latch of frame i return
\* (a guard a Table call keeps while it calls the cache again holds its
\* latch too)
LatchReadOk(t, i) ==
    \A u \in Threads \ {t} :
        /\ ~(cth[u].mode = "X" /\ cth[u].idx = i)
        /\ ~(tbl[u].kept # None /\ tbl[u].kept[1].idx = i /\ tbl[u].kept[1].mode = "X")
LatchWriteOk(t, i) ==
    \A u \in Threads \ {t} :
        /\ ~(cth[u].mode # "none" /\ cth[u].idx = i)
        /\ ~(tbl[u].kept # None /\ tbl[u].kept[1].idx = i)

\* a panic unwinds: the latch guard is released, the thread is gone
Panicked(t) == [cth[t] EXCEPT !.pc = "panicked", !.mode = "none"]

\* the page-table lookup of MemCache::get_page and get_page_mut; a miss in
\* PageCacheInner::get_page(_mut) goes on to new_page_mut, a miss on the
\* victim in new_page goes on to remove_page
AfterLookup(rec) ==
    IF rec.page \in DOMAIN map
    THEN [rec EXCEPT !.idx = map[rec.page], !.pc = "latch"]
    ELSE [rec EXCEPT !.pc = IF rec.op = "new" THEN "rm_map" ELSE "alloc_frame"]

\* PageCacheInner::get_page / get_page_mut called: the lookup
CallGet(t, op, page_id) ==
    /\ cth[t].pc = "idle"
    /\ cth' = [cth EXCEPT ![t] =
                  AfterLookup([IdleCacheThread EXCEPT !.op = op, !.page = page_id])]
    /\ UNCHANGED <<btreeVars, tableVars, wbVars, map, free_list, pages_metadata, frames, eviction_policy, disk,
                   last_page_id, nwrites>>

\* new_page: mem_cache.get_page(victim), the lookup
LookupVictim(t) ==
    /\ cth[t].pc = "lookup"
    /\ cth' = [cth EXCEPT ![t] = AfterLookup(cth[t])]
    /\ UNCHANGED <<btreeVars, tableVars, wbVars, map, free_list, pages_metadata, frames, eviction_policy, disk,
                   last_page_id, nwrites>>

\* get_page: latch.read(); get_page_mut: latch.write()
Latch(t) ==
    /\ cth[t].pc = "latch"
    /\ IF cth[t].op = "get_mut"
       THEN /\ LatchWriteOk(t, cth[t].idx)
            /\ cth' = [cth EXCEPT ![t].mode = "X", ![t].pc = "pin"]
       ELSE /\ LatchReadOk(t, cth[t].idx)
            /\ cth' = [cth EXCEPT ![t].mode = "S", ![t].pc = "pin"]
    /\ UNCHANGED <<btreeVars, tableVars, wbVars, map, free_list, pages_metadata, frames, eviction_policy, disk,
                   last_page_id, nwrites>>

\* metadata.pin(); get_page_mut asserts that the counter was 0
Pin(t) ==
    /\ cth[t].pc = "pin"
    /\ pages_metadata' = [pages_metadata EXCEPT ![cth[t].idx].counter = @ + 1]
    /\ cth' = [cth EXCEPT ![t] =
                  IF cth[t].op = "get_mut" /\ pages_metadata[cth[t].idx].counter # 0
                  THEN Panicked(t)
                  ELSE [cth[t] EXCEPT !.pc = "lru"]]
    /\ UNCHANGED <<btreeVars, tableVars, wbVars, map, free_list, frames, eviction_policy, disk,
                   last_page_id, nwrites>>

\* get_page(_mut): record_access and set_unevictable under the policy's lock;
\* the guard is returned (in new_page, to the write of the victim; in
\* writeback_dirty_pages, op "wb", to the check of the dirty flag)
Access(t) ==
    /\ cth[t].pc = "lru"
    /\ eviction_policy' = SetUnevictable(RecordAccess(eviction_policy, cth[t].page),
                                         cth[t].page)
    /\ cth' = [cth EXCEPT ![t].pc = IF cth[t].op = "new" THEN "write"
                                    ELSE IF cth[t].op = "wb" THEN "wb_hold"
                                    ELSE "hold"]
    /\ UNCHANGED <<btreeVars, tableVars, wbVars, map, free_list, pages_metadata, frames, disk,
                   last_page_id, nwrites>>

\* StorageBackend::write_page (write_all_at the page's offset, which extends
\* the file when the offset is past its end)
DiskWrite(d, page_id, bytes) == (page_id :> bytes) @@ d

\* new_page: storage.write_page(&page, page_id) and fsync, where storage is
\* the backend of the page being created (bound before the if-let) and
\* page_id the victim's (the if-let shadows storage_id and page_id)
WriteVictim(t) ==
    /\ cth[t].pc = "write"
    /\ disk' = DiskWrite(disk, <<cth[t].newid[1], cth[t].page[2]>>, frames[cth[t].idx])
    /\ cth' = [cth EXCEPT ![t].pc = "unpin"]
    /\ UNCHANGED <<btreeVars, tableVars, wbVars, map, free_list, pages_metadata, frames, eviction_policy,
                   last_page_id, nwrites>>

\* Drop for PageRef / PageRefMut: metadata.unpin(); PageRefMut asserts that
\* the counter was 1. The guard dropped is the one the caller holds, or the
\* victim's at the end of the if-let of new_page
Unpin(t) ==
    /\ cth[t].pc \in {"hold", "unpin"}
    /\ pages_metadata' = [pages_metadata EXCEPT ![cth[t].idx].counter = @ - 1]
    /\ cth' = [cth EXCEPT ![t] =
                  IF cth[t].mode = "X" /\ pages_metadata[cth[t].idx].counter # 1
                  THEN Panicked(t)
                  ELSE [cth[t] EXCEPT !.pc = "check",
                                      !.op = IF cth[t].pc = "hold" THEN "drop" ELSE @]]
    /\ UNCHANGED <<btreeVars, tableVars, wbVars, map, free_list, frames, eviction_policy, disk,
                   last_page_id, nwrites>>

\* where a thread is after the drop of a guard: new_page goes on to
\* remove_page(victim), a caller's drop is over
AfterDrop(t) ==
    IF cth[t].op = "new"
    THEN [cth[t] EXCEPT !.mode = "none", !.pc = "rm_map"]
    ELSE IdleCacheThread

\* Drop: get_pin_counter() == 0 is read; when it is not 0 the latch guard is
\* released and the drop is over
CheckCounter(t) ==
    /\ cth[t].pc = "check"
    /\ cth' = [cth EXCEPT ![t] =
                  IF pages_metadata[cth[t].idx].counter = 0
                  THEN [cth[t] EXCEPT !.pc = "evictable"]
                  ELSE AfterDrop(t)]
    /\ UNCHANGED <<btreeVars, tableVars, wbVars, map, free_list, pages_metadata, frames, eviction_policy, disk,
                   last_page_id, nwrites>>

\* Drop: set_evictable(metadata.page_id) under the policy's lock, then the
\* latch guard is released
MakeEvictable(t) ==
    /\ cth[t].pc = "evictable"
    /\ eviction_policy' = SetEvictable(eviction_policy,
                                       pages_metadata[cth[t].idx].page_id)
    /\ cth' = [cth EXCEPT ![t] = AfterDrop(t)]
    /\ UNCHANGED <<btreeVars, tableVars, wbVars, map, free_list, pages_metadata, frames, disk,
                   last_page_id, nwrites>>

\* remove_page: map.remove(page_id) under the page table's lock; PageNotFound
\* ends new_page with an error
RemoveFromMap(t) ==
    /\ cth[t].pc = "rm_map"
    /\ IF cth[t].page \in DOMAIN map
       THEN /\ map' = [p \in DOMAIN map \ {cth[t].page} |-> map[p]]
            /\ cth' = [cth EXCEPT ![t].idx = map[cth[t].page], ![t].pc = "rm_latch"]
       ELSE /\ map' = map
            /\ cth' = [cth EXCEPT ![t] = IdleCacheThread]
    /\ UNCHANGED <<btreeVars, tableVars, wbVars, free_list, pages_metadata, frames, eviction_policy, disk,
                   last_page_id, nwrites>>

\* remove_page: latch.write() and the assertion that the counter is 0
RemoveLatch(t) ==
    /\ cth[t].pc = "rm_latch"
    /\ LatchWriteOk(t, cth[t].idx)
    /\ cth' = [cth EXCEPT ![t] =
                  IF pages_metadata[cth[t].idx].counter # 0
                  THEN Panicked(t)
                  ELSE [cth[t] EXCEPT !.mode = "X", !.pc = "rm_lru"]]
    /\ UNCHANGED <<btreeVars, tableVars, wbVars, map, free_list, pages_metadata, frames, eviction_policy, disk,
                   last_page_id, nwrites>>

\* remove_page: eviction_policy.lock().remove(page_id)
RemoveFromPolicy(t) ==
    /\ cth[t].pc = "rm_lru"
    /\ eviction_policy' = LruRemove(eviction_policy, cth[t].page)
    /\ cth' = [cth EXCEPT ![t].pc = "rm_free"]
    /\ UNCHANGED <<btreeVars, tableVars, wbVars, map, free_list, pages_metadata, frames, disk,
                   last_page_id, nwrites>>

\* remove_page: free_list.push_back(idx), the latch guard is released and
\* new_page goes on to new_page_mut(page_id)
RemoveToFreeList(t) ==
    /\ cth[t].pc = "rm_free"
    /\ free_list' = Append(free_list, cth[t].idx)
    /\ cth' = [cth EXCEPT ![t].mode = "none", ![t].page = cth[t].newid,
                          ![t].pc = "alloc_frame"]
    /\ UNCHANGED <<btreeVars, tableVars, wbVars, map, pages_metadata, frames, eviction_policy, disk, last_page_id,
                   nwrites>>

\* new_page_mut: free_list.pop_front(); MemCacheError::Full ends the call,
\* and in writeback_dirty_pages .expect("writeback failed") panics on it
TakeFrame(t) ==
    /\ cth[t].pc = "alloc_frame"
    /\ IF free_list = <<>>
       THEN /\ free_list' = free_list
            /\ cth' = [cth EXCEPT ![t] = IF cth[t].op = "wb" THEN Panicked(t)
                                         ELSE IdleCacheThread]
       ELSE /\ free_list' = Tail(free_list)
            /\ cth' = [cth EXCEPT ![t].idx = Head(free_list), ![t].pc = "new_latch"]
    /\ UNCHANGED <<btreeVars, tableVars, wbVars, map, pages_metadata, frames, eviction_policy, disk, last_page_id,
                   nwrites>>

\* new_page_mut: latch.write(), *metadata = PageMetadata::new(page_id), pin()
NewLatch(t) ==
    /\ cth[t].pc = "new_latch"
    /\ LatchWriteOk(t, cth[t].idx)
    /\ pages_metadata' = [pages_metadata EXCEPT
                             ![cth[t].idx] = [page_id |-> cth[t].page, counter |-> 1,
                                              dirty |-> FALSE]]
    /\ cth' = [cth EXCEPT ![t].mode = "X", ![t].pc = "new_map"]
    /\ UNCHANGED <<btreeVars, tableVars, wbVars, map, free_list, frames, eviction_policy, disk,
                   last_page_id, nwrites>>

\* new_page_mut: the assertion that the page is not resident, map.insert
NewMapEntry(t) ==
    /\ cth[t].pc = "new_map"
    /\ IF cth[t].page \in DOMAIN map
       THEN /\ map' = map
            /\ cth' = [cth EXCEPT ![t] = Panicked(t)]
       ELSE /\ map' = [p \in DOMAIN map \cup {cth[t].page} |->
                          IF p = cth[t].page THEN cth[t].idx ELSE map[p]]
            /\ cth' = [cth EXCEPT ![t].pc = "new_lru"]
    /\ UNCHANGED <<btreeVars, tableVars, wbVars, free_list, pages_metadata, frames, eviction_policy, disk,
                   last_page_id, nwrites>>

\* new_page_mut: record_access and set_unevictable; new_page returns the write
\* guard, get_page(_mut) goes on to read the page
NewAccess(t) ==
    /\ cth[t].pc = "new_lru"
    /\ eviction_policy' = SetUnevictable(RecordAccess(eviction_policy, cth[t].page),
                                         cth[t].page)
    /\ cth' = [cth EXCEPT ![t].pc = IF cth[t].op = "new" THEN "hold" ELSE "read",
                          ![t].newid = NoPage]
    /\ UNCHANGED <<btreeVars, tableVars, wbVars, map, free_list, pages_metadata, frames, disk,
                   last_page_id, nwrites>>

\* a downgrade that gives up the write latch without taking the read latch
DowngradeReleases(rec) == [rec EXCEPT !.mode = "none"]

\* PageRefMut::downgrade: RwLockWriteGuard::downgrade turns the exclusive
\* latch into a shared one in one atomic operation; no Drop runs, so the pin
\* counter and the eviction policy are not touched
Downgrade(rec) == [rec EXCEPT !.mode = "S"]

\* get_page / get_page_mut on a miss: storage.read_page into the frame;
\* get_page downgrades the guard. A page past the end of the file is an Io
\* error (read_exact_at): the call ends and the write guard is dropped
ReadPage(t) ==
    /\ cth[t].pc = "read"
    /\ IF cth[t].page \in DOMAIN disk
       THEN /\ frames' = [frames EXCEPT ![cth[t].idx] = disk[cth[t].page]]
            /\ cth' = [cth EXCEPT
                  ![t] = IF cth[t].op = "get_mut"
                         THEN [cth[t] EXCEPT !.pc = "hold"]
                         ELSE [Downgrade(cth[t]) EXCEPT
                                  !.pc = IF cth[t].op = "wb" THEN "wb_hold" ELSE "hold"]]
       ELSE /\ frames' = frames
            /\ cth' = [cth EXCEPT ![t].pc = "unpin"]
    /\ UNCHANGED <<btreeVars, tableVars, wbVars, map, free_list, pages_metadata, eviction_policy, disk, last_page_id,
                   nwrites>>

\* the holder of a write guard writes the page (page_mut)
Modify(t) ==
    /\ cth[t].pc = "hold"
    /\ cth[t].mode = "X"
    /\ nwrites < MaxWrites
    /\ nwrites' = nwrites + 1
    /\ frames' = [frames EXCEPT ![cth[t].idx] = [i \in 1..PAGE_SIZE |-> nwrites + 1]]
    /\ written' = (cth[t].page :> Some(frames'[cth[t].idx])) @@ written
    /\ UNCHANGED <<btreeVars, tableVars, dirty_pages, wb, map, free_list, pages_metadata, eviction_policy, disk, last_page_id,
                   cth>>

\* new_page(storage_id) called: storage.allocate_page (fetch_add and the
\* write of a blank page)
Allocate(t, storage_id) ==
    /\ cth[t].pc = "idle"
    /\ storage_id \in DOMAIN last_page_id
    /\ last_page_id[storage_id] < MaxPageId
    /\ last_page_id' = [last_page_id EXCEPT ![storage_id] = @ + 1]
    /\ disk' = DiskWrite(disk, <<storage_id, last_page_id[storage_id] + 1>>, BlankPage)
    /\ cth' = [cth EXCEPT ![t] = [IdleCacheThread EXCEPT !.op = "new",
                  !.newid = <<storage_id, last_page_id[storage_id] + 1>>,
                  !.pc = "evict"]]
    /\ UNCHANGED <<btreeVars, tableVars, wbVars, map, free_list, pages_metadata, frames,
                   eviction_policy, nwrites>>

\* new_page: mem_cache.evict(), under the page table's lock
Evict(t) ==
    /\ cth[t].pc = "evict"
    /\ LET r == IF free_list = <<>> THEN LruEvict(eviction_policy)
                ELSE [victim |-> None, lru |-> eviction_policy]
       IN  /\ eviction_policy' = r.lru
           /\ cth' = [cth EXCEPT ![t] =
                         IF r.victim = None
                         THEN [cth[t] EXCEPT !.page = cth[t].newid, !.pc = "alloc_frame"]
                         ELSE [cth[t] EXCEPT !.page = r.victim[1], !.pc = "lookup"]]
    /\ UNCHANGED <<btreeVars, tableVars, wbVars, map, free_list, pages_metadata, frames, disk,
                   last_page_id, nwrites>>

NextCache ==
    \E t \in Threads :
    \/ \E page_id \in StoredPages(0) : CallGet(t, "get", page_id)
    \/ \E page_id \in StoredPages(0) : CallGet(t, "get_mut", page_id)
    \/ LookupVictim(t)
    \/ Latch(t)
    \/ Pin(t)
    \/ Access(t)
    \/ WriteVictim(t)
    \/ Unpin(t)
    \/ CheckCounter(t)
    \/ MakeEvictable(t)
    \/ RemoveFromMap(t)
    \/ RemoveLatch(t)
    \/ RemoveFromPolicy(t)
    \/ RemoveToFreeList(t)
    \/ TakeFrame(t)
    \/ NewLatch(t)
    \/ NewMapEntry(t)
    \/ NewAccess(t)
    \/ ReadPage(t)
    \/ Modify(t)
    \/ Allocate(t, 0)
    \/ Evict(t)

InitCache == InitTree /\ SeqIdle /\ ConcIdle /\ CacheIdle

SpecCache == InitCache /\ [][NextCache]_vars

(***************************************************************************)
(* SpecWb: the page cache with its writeback thread. Thread 1 is the user: *)
(* it calls get_page_mut and new_page, writes through its guard, calls     *)
(* set_page_dirty, drops the guard, and drops its handles of the facade.   *)
(* Thread 2 is the thread spawned by PageCache::try_new. One storage is    *)
(* attached.                                                               *)
(***************************************************************************)
WritebackThread == 2
UserThreads == Threads \ {WritebackThread}

\* set_page_dirty(storage_id, metadata) by the holder of a write guard:
\* metadata.set_dirty() and the page recorded in dirty_pages
SetDirty(t) ==
    /\ cth[t].pc = "hold"
    /\ cth[t].mode = "X"
    /\ LET page_id == <<cth[t].page[1], pages_metadata[cth[t].idx].page_id[2]>>
           recorded == IF dirty_pages = None THEN {} ELSE dirty_pages[1]
       IN  /\ ~(pages_metadata[cth[t].idx].dirty /\ page_id \in recorded)
           /\ dirty_pages' = Some(recorded \cup {page_id})
    /\ pages_metadata' = [pages_metadata EXCEPT ![cth[t].idx].dirty = TRUE]
    /\ UNCHANGED <<btreeVars, tableVars, map, free_list, frames, eviction_policy, disk, last_page_id,
                   nwrites, cth, wb, written>>

\* the writeback thread wakes up: weak.upgrade() gives a strong reference
\* while a handle exists, else the loop and the thread end
WbUpgrade ==
    /\ wb.wt = "sleep"
    /\ wb' = IF wb.handles > 0
             THEN [wb EXCEPT !.upgraded = TRUE, !.wt = "run",
                             !.proc[WritebackThread] = [pc |-> "take", todo |-> {}]]
             ELSE [wb EXCEPT !.wt = "exited"]
    /\ UNCHANGED <<btreeVars, tableVars, map, free_list, pages_metadata, frames, eviction_policy,
                   disk, last_page_id, nwrites, cth, dirty_pages, written>>

\* writeback_dirty_pages: dirty_pages.lock().take()
WbTake(t) ==
    /\ wb.proc[t].pc = "take"
    /\ wb' = [wb EXCEPT !.proc[t] =
                  [pc |-> "pages",
                   todo |-> IF dirty_pages = None THEN {} ELSE dirty_pages[1]]]
    /\ dirty_pages' = None
    /\ UNCHANGED <<btreeVars, tableVars, map, free_list, pages_metadata, frames, eviction_policy,
                   disk, last_page_id, nwrites, cth, written>>

\* writeback_dirty_pages: self.get_page(storage_id, page_id) for the next
\* page of the set taken (the pages of a storage in ascending order)
WbCall(t) ==
    /\ wb.proc[t].pc = "pages"
    /\ cth[t].pc = "idle"
    /\ \E page_id \in wb.proc[t].todo :
           /\ \A k \in wb.proc[t].todo : k[1] = page_id[1] => page_id[2] <= k[2]
           /\ cth' = [cth EXCEPT ![t] =
                         AfterLookup([IdleCacheThread EXCEPT !.op = "wb",
                                                             !.page = page_id])]
           /\ wb' = [wb EXCEPT !.proc[t].todo = @ \ {page_id}]
    /\ UNCHANGED <<btreeVars, tableVars, map, free_list, pages_metadata, frames, eviction_policy,
                   disk, last_page_id, nwrites, dirty_pages, written>>

\* writeback_dirty_pages: if is_dirty() then write_page(page_ref.page(),
\* page_id) and clear_dirty(); then the guard is dropped
WbWrite(t) ==
    /\ cth[t].pc = "wb_hold"
    /\ disk' = IF pages_metadata[cth[t].idx].dirty
               THEN DiskWrite(disk, cth[t].page, frames[cth[t].idx])
               ELSE disk
    /\ pages_metadata' = [pages_metadata EXCEPT ![cth[t].idx].dirty = FALSE]
    /\ cth' = [cth EXCEPT ![t].pc = "unpin"]
    /\ UNCHANGED <<btreeVars, tableVars, map, free_list, frames, eviction_policy, last_page_id,
                   nwrites, dirty_pages, wb, written>>

\* Drop for PageCacheInner run by the writeback thread itself: jh.join() on
\* its own JoinHandle either fails (a panic) or never returns
SelfJoin == {"join_panic", "join_hang"}

\* the writeback thread after writeback_dirty_pages returned: drop(pagecache)
\* and sleep; when no handle is left this was the last strong reference
\* and Drop for PageCacheInner runs on this thread
WbCycleEnd ==
    /\ wb.wt = "run"
    /\ wb.proc[WritebackThread] = [pc |-> "pages", todo |-> {}]
    /\ cth[WritebackThread].pc = "idle"
    /\ IF wb.handles > 0
       THEN wb' = [wb EXCEPT !.upgraded = FALSE, !.wt = "sleep",
                             !.proc[WritebackThread] = NoWriteback]
       ELSE \E outcome \in SelfJoin :
                wb' = [wb EXCEPT !.upgraded = FALSE, !.wt = outcome,
                                 !.drop = "join", !.dropper = WritebackThread,
                                 !.proc[WritebackThread] = NoWriteback]
    /\ UNCHANGED <<btreeVars, tableVars, map, free_list, pages_metadata, frames, eviction_policy,
                   disk, last_page_id, nwrites, cth, dirty_pages, written>>

\* the writeback thread unwinds after a panic inside writeback_dirty_pages:
\* its strong reference is dropped, with the same effect when it was the last
WbUnwind ==
    /\ wb.wt = "run"
    /\ cth[WritebackThread].pc = "panicked"
    /\ IF wb.handles > 0
       THEN wb' = [wb EXCEPT !.upgraded = FALSE, !.wt = "panicked"]
       ELSE \E outcome \in SelfJoin :
                wb' = [wb EXCEPT !.upgraded = FALSE, !.wt = outcome,
                                 !.drop = "join", !.dropper = WritebackThread]
    /\ UNCHANGED <<btreeVars, tableVars, map, free_list, pages_metadata, frames, eviction_policy,
                   disk, last_page_id, nwrites, cth, dirty_pages, written>>

\* a user drops a handle of the facade (PageCache or StoragePageCache); no
\* guard outlives the last handle. Dropping the last strong reference runs
\* Drop for PageCacheInner on the user's thread
DropHandle(t) ==
    /\ wb.handles > 0
    /\ cth[t].pc = "idle"
    /\ wb.handles = 1 => \A u \in UserThreads : cth[u].pc \in {"idle", "panicked"}
    /\ wb' = IF wb.handles = 1 /\ ~wb.upgraded
             THEN [wb EXCEPT !.handles = 0, !.drop = "join", !.dropper = t]
             ELSE [wb EXCEPT !.handles = @ - 1]
    /\ UNCHANGED <<btreeVars, tableVars, map, free_list, pages_metadata, frames, eviction_policy,
                   disk, last_page_id, nwrites, cth, dirty_pages, written>>

\* Drop for PageCacheInner on a user's thread: writeback_jh.take() and
\* jh.join() return once the writeback thread has ended (a panic of that
\* thread is ignored); writeback_dirty_pages follows
DropJoin(t) ==
    /\ wb.drop = "join"
    /\ wb.dropper = t
    /\ t # WritebackThread
    /\ wb.wt \in {"exited", "panicked"}
    /\ wb' = [wb EXCEPT !.drop = "flush", !.proc[t] = [pc |-> "take", todo |-> {}]]
    /\ UNCHANGED <<btreeVars, tableVars, map, free_list, pages_metadata, frames, eviction_policy,
                   disk, last_page_id, nwrites, cth, dirty_pages, written>>

\* Drop for PageCacheInner: writeback_dirty_pages returned, the drop is over
DropDone(t) ==
    /\ wb.drop = "flush"
    /\ wb.dropper = t
    /\ wb.proc[t] = [pc |-> "pages", todo |-> {}]
    /\ cth[t].pc = "idle"
    /\ wb' = [wb EXCEPT !.drop = "done", !.proc[t] = NoWriteback]
    /\ UNCHANGED <<btreeVars, tableVars, map, free_list, pages_metadata, frames, eviction_policy,
                   disk, last_page_id, nwrites, cth, dirty_pages, written>>

\* the steps inside a call of the buffer pool, the drop of a guard included
CallSteps(t) ==
    \/ LookupVictim(t)
    \/ Latch(t)
    \/ Pin(t)
    \/ Access(t)
    \/ WriteVictim(t)
    \/ Unpin(t)
    \/ CheckCounter(t)
    \/ MakeEvictable(t)
    \/ RemoveFromMap(t)
    \/ RemoveLatch(t)
    \/ RemoveFromPolicy(t)
    \/ RemoveToFreeList(t)
    \/ TakeFrame(t)
    \/ NewLatch(t)
    \/ NewMapEntry(t)
    \/ NewAccess(t)
    \/ ReadPage(t)
    \/ Evict(t)

\* the user is inside no call while it has a handle to call through
UserCalls(t) == wb.handles > 0 /\ t \in UserThreads

NextWb ==
    \/ WbUpgrade
    \/ WbCycleEnd
    \/ WbUnwind
    \/ \E t \in Threads :
        \/ UserCalls(t) /\ \E page_id \in StoredPages(0) : CallGet(t, "get_mut", page_id)
        \/ UserCalls(t) /\ Allocate(t, 0)
        \/ UserCalls(t) /\ Modify(t)
        \/ UserCalls(t) /\ SetDirty(t)
        \/ UserCalls(t) /\ DropHandle(t)
        \/ DropJoin(t)
        \/ DropDone(t)
        \/ WbTake(t)
        \/ WbCall(t)
        \/ WbWrite(t)
        \/ LookupVictim(t)
        \/ Latch(t)
        \/ Pin(t)
        \/ Access(t)
        \/ WriteVictim(t)
        \/ Unpin(t)
        \/ CheckCounter(t)
        \/ MakeEvictable(t)
        \/ RemoveFromMap(t)
        \/ RemoveLatch(t)
        \/ RemoveFromPolicy(t)
        \/ RemoveToFreeList(t)
        \/ TakeFrame(t)
        \/ NewLatch(t)
        \/ NewMapEntry(t)
        \/ NewAccess(t)
        \/ ReadPage(t)
        \/ Evict(t)

\* every thread is scheduled: the writeback thread wakes up and runs its
\* cycle, a call that can go on goes on, a guard held is dropped, a drop of
\* the facade goes on
SpecWb ==
    /\ InitCache
    /\ [][NextWb]_vars
    /\ WF_vars(WbUpgrade \/ WbCycleEnd \/ WbUnwind)
    /\ \A t \in Threads :
           WF_vars(CallSteps(t) \/ WbTake(t) \/ WbCall(t) \/ WbWrite(t)
                       \/ DropJoin(t) \/ DropDone(t))

(***************************************************************************)
(* SpecSeq: the buffer pool with no concurrent calls. A call is started    *)
(* and runs while no other call is in progress; the caller of a call may   *)
(* hold the guard another call returned. Up to MaxStorages storages are    *)
(* attached.                                                               *)
(***************************************************************************)
\* PageCache::cache_storage: the next storage id, the backend inserted, a
\* StoragePageCache (one more handle) returned
CacheStorage ==
    /\ Cardinality(DOMAIN last_page_id) < MaxStorages
    /\ LET storage_id == Cardinality(DOMAIN last_page_id)
       IN  /\ last_page_id' = (storage_id :> InitLastPage) @@ last_page_id
           /\ disk' = [k \in {storage_id} \X (0..InitLastPage) |-> BlankPage] @@ disk
    /\ wb' = [wb EXCEPT !.handles = @ + 1]
    /\ UNCHANGED <<btreeVars, tableVars, map, free_list, pages_metadata, frames, eviction_policy,
                   nwrites, cth, dirty_pages, written>>

\* thread u is between two calls, holding a guard or not
AtRest(u) == cth[u].pc \in {"idle", "hold", "panicked"}

\* no call but the one of thread t is in progress
Turn(t) == \A u \in Threads \ {t} : AtRest(u)

NextSeq ==
    \/ (\A u \in Threads : AtRest(u)) /\ CacheStorage
    \/ \E t \in Threads :
        \/ Turn(t) /\ \E page_id \in AttachedPages : CallGet(t, "get", page_id)
        \/ Turn(t) /\ \E page_id \in AttachedPages : CallGet(t, "get_mut", page_id)
        \/ Turn(t) /\ LookupVictim(t)
        \/ Turn(t) /\ Latch(t)
        \/ Turn(t) /\ Pin(t)
        \/ Turn(t) /\ Access(t)
        \/ Turn(t) /\ WriteVictim(t)
        \/ Turn(t) /\ Unpin(t)
        \/ Turn(t) /\ CheckCounter(t)
        \/ Turn(t) /\ MakeEvictable(t)
        \/ Turn(t) /\ RemoveFromMap(t)
        \/ Turn(t) /\ RemoveLatch(t)
        \/ Turn(t) /\ RemoveFromPolicy(t)
        \/ Turn(t) /\ RemoveToFreeList(t)
        \/ Turn(t) /\ TakeFrame(t)
        \/ Turn(t) /\ NewLatch(t)
        \/ Turn(t) /\ NewMapEntry(t)
        \/ Turn(t) /\ NewAccess(t)
        \/ Turn(t) /\ ReadPage(t)
        \/ Turn(t) /\ Modify(t)
        \/ Turn(t) /\ \E storage_id \in DOMAIN last_page_id : Allocate(t, storage_id)
        \/ Turn(t) /\ Evict(t)

SpecSeq == InitCache /\ [][NextSeq]_vars

(***************************************************************************)
(* SpecHeap: one heap page (src/src/pages/heappage.rs) driven by           *)
(* insert_tuple, delete_tuple and get_tuple. A page is PAGE_SIZE cells of  *)
(* two bytes: the header (num_slots), then the data area, with the slot    *)
(* array growing from its start and the tuples from its end. A tuple is    *)
(* the sequence of cells that Tuple::write_bytes_to writes.                *)
(***************************************************************************)
\* size_of::<HeapPageHeader>() and size_of::<HeapPageSlot>(), in cells
HEADER_SIZE == 1
SLOT_SIZE == 2
DATA_SIZE == PAGE_SIZE - HEADER_SIZE
\* tuples are 1..MaxTupleLen cells long; the n-th tuple inserted holds n in
\* every cell
MaxTupleLen == 3
\* insert_tuple is called while the page has fewer than MaxSlots slots
MaxSlots == 3

\* From<&Page> for &HeapPage: the header is the first cell, data[i] the
\* cell HEADER_SIZE + i + 1 of the page
num_slots(page) == page[1]

\* data[at..at + Len(cells)] = cells
WriteData(page, at, cells) ==
    [i \in 1..PAGE_SIZE |->
        IF i - HEADER_SIZE - 1 \in at..(at + Len(cells) - 1)
        THEN cells[i - HEADER_SIZE - at] ELSE page[i]]

\* get_slot / get_slot_mut: None when slot_id >= num_slots
get_slot(page, slot_id) ==
    IF slot_id >= num_slots(page) THEN None
    ELSE Some([offset |-> page[HEADER_SIZE + slot_id * SLOT_SIZE + 1],
               len |-> page[HEADER_SIZE + slot_id * SLOT_SIZE + 2]])

\* every tuple written at the end of the data area
DataEnd(page) == DATA_SIZE

\* last_tuple_offset().unwrap_or(DATA_SIZE): the offset of the last slot
last_tuple_offset(page) ==
    IF num_slots(page) = 0 THEN DATA_SIZE
    ELSE get_slot(page, num_slots(page) - 1)[1].offset

\* the space up to the tuples, the slot array not counted
FreeUpToTuples(page) == last_tuple_offset(page)

free_space(page) == last_tuple_offset(page) - num_slots(page) * SLOT_SIZE

insert_tuple(page, tuple) ==
    IF free_space(page) >= SLOT_SIZE + Len(tuple)
    THEN LET offset == last_tuple_offset(page) - Len(tuple)
             data == WriteData(page, offset, tuple)
             slot == WriteData(data, num_slots(page) * SLOT_SIZE, <<offset, Len(tuple)>>)
         IN  [page |-> [slot EXCEPT ![1] = num_slots(page) + 1],
              err |-> "none", slot_id |-> num_slots(page)]
    ELSE [page |-> page, err |-> "NoFreeSpace", slot_id |-> 0]

\* a delete that also takes the slot off the array when it is the last one
DeleteReclaims(page, slot_id) ==
    IF get_slot(page, slot_id) = None THEN [page |-> page, err |-> "SlotNotFound"]
    ELSE LET marked == WriteData(page, slot_id * SLOT_SIZE + 1, <<0>>)
         IN  [page |-> IF slot_id + 1 = num_slots(page)
                       THEN [marked EXCEPT ![1] = slot_id] ELSE marked,
              err |-> "none"]

\* delete_tuple: mark_deleted sets len = 0, the offset stays
delete_tuple(page, slot_id) ==
    IF get_slot(page, slot_id) = None THEN [page |-> page, err |-> "SlotNotFound"]
    ELSE [page |-> WriteData(page, slot_id * SLOT_SIZE + 1, <<0>>), err |-> "none"]

get_tuple(page, slot_id) ==
    LET slot == get_slot(page, slot_id)
    IN  IF slot = None THEN [err |-> "SlotNotFound", tuple |-> <<>>]
        ELSE IF slot[1].len = 0 THEN [err |-> "SlotDeleted", tuple |-> <<>>]
        ELSE [err |-> "none",
              tuple |-> [i \in 1..slot[1].len |-> page[HEADER_SIZE + slot[1].offset + i]]]

HeapInsert(len) ==
    /\ Len(hist.slots) < MaxSlots
    /\ LET tuple == [i \in 1..len |-> Len(hist.slots) + 1]
           r == insert_tuple(heap, tuple)
       IN  /\ heap' = r.page
           /\ hist' = [slots |-> IF r.err = "none"
                                 THEN Append(hist.slots, [tuple |-> tuple, deleted |-> FALSE,
                                                          offset |-> last_tuple_offset(r.page)])
                                 ELSE hist.slots,
                       last |-> [op |-> "insert", arg |-> len, err |-> r.err,
                                 slot_id |-> r.slot_id]]
    /\ UNCHANGED <<btreeVars, cacheVars, tbl, rows, file>>

HeapDelete(slot_id) ==
    /\ LET r == delete_tuple(heap, slot_id)
       IN  /\ heap' = r.page
           /\ hist' = [slots |-> IF r.err = "none"
                                 THEN [hist.slots EXCEPT ![slot_id + 1].deleted = TRUE]
                                 ELSE hist.slots,
                       last |-> [op |-> "delete", arg |-> slot_id, err |-> r.err,
                                 slot_id |-> slot_id]]
    /\ UNCHANGED <<btreeVars, cacheVars, tbl, rows, file>>

NextHeap ==
    \/ \E len \in 1..MaxTupleLen : HeapInsert(len)
    \/ \E slot_id \in 0..MaxSlots : HeapDelete(slot_id)

SpecHeap == InitCache /\ [][NextHeap]_vars

(***************************************************************************)
(* SpecFile: a FileStorage (src/src/storage/backend.rs) and its file.      *)
(* Threads call allocate_page (the fetch_add and the write of the blank    *)
(* page are two steps) and write_page; the storage is dropped and the file *)
(* opened or created again. A write that fails may have written any        *)
(* prefix of the page.                                                     *)
(***************************************************************************)
\* allocate_page is called while last_page_id < MaxFilePages; open is given
\* files of up to MaxFilePages + 1 pages. Page ids stay far below the end of
\* the u32 range, so the counter is not reduced modulo 2^32
MaxFilePages == 2

\* allocate_page: last_page_id.fetch_add(1) + 1
FetchAdd(t) ==
    /\ file.open
    /\ file.alloc[t] = None
    /\ file.last_page_id < MaxFilePages
    /\ file' = [file EXCEPT !.op = "fetch_add",
                            !.last_page_id = @ + 1,
                            !.alloc[t] = Some(file.last_page_id + 1)]
    /\ UNCHANGED <<btreeVars, cacheVars, heap, hist, tbl, rows>>

\* allocate_page: write_page(&Page::new(), new_page_id)? -- n cells of the
\* blank page reach the file, all of them when the write succeeds; a write
\* past the end of the file extends it
AllocWrite(t, n) ==
    /\ file.alloc[t] # None
    /\ LET id == file.alloc[t][1]
       IN  file' = [file EXCEPT
                       !.op = "allocate", !.synced = FALSE,
                       !.err = IF n = PAGE_SIZE THEN "none" ELSE "Io",
                       !.len = IF n > 0 /\ id * PAGE_SIZE + n > @ THEN id * PAGE_SIZE + n ELSE @,
                       !.data = IF n = PAGE_SIZE THEN @ \ {id} ELSE @,
                       !.alloc[t] = None,
                       !.returned = IF n = PAGE_SIZE THEN Append(@, id) ELSE @,
                       !.failed = IF n = PAGE_SIZE THEN @ ELSE @ \cup {id}]
    /\ UNCHANGED <<btreeVars, cacheVars, heap, hist, tbl, rows>>

\* write_page(page, page_id) of a page that is not blank, by a caller that
\* got page_id from last_page_id()
FileWrite(page_id) ==
    /\ file.open
    /\ page_id <= file.last_page_id
    /\ file' = [file EXCEPT !.op = "write", !.err = "none", !.synced = FALSE,
                            !.len = IF (page_id + 1) * PAGE_SIZE > @ THEN (page_id + 1) * PAGE_SIZE ELSE @,
                            !.data = @ \cup {page_id}]
    /\ UNCHANGED <<btreeVars, cacheVars, heap, hist, tbl, rows>>

\* a last page id that counts the pages
PagesOf(len) == len \div PAGE_SIZE

\* open: (len / PAGE_SIZE) as u32 - 1
LastPageOf(len) == (len \div PAGE_SIZE) - 1

\* the storage is dropped and FileStorage::open is called on a file of len
\* cells (the file as it was left when len = file.len)
Open(len) ==
    /\ \A t \in Threads : file.alloc[t] = None
    /\ IF len = 0 \/ len % PAGE_SIZE # 0
       THEN file' = [file EXCEPT !.op = "open", !.err = "FileCorrupted", !.open = FALSE,
                                 !.len = len,
                                 !.data = {q \in @ : (q + 1) * PAGE_SIZE <= len}]
       ELSE file' = [file EXCEPT !.op = "open", !.err = "none", !.open = TRUE,
                                 !.len = len,
                                 !.data = {q \in @ : (q + 1) * PAGE_SIZE <= len},
                                 !.last_page_id = LastPageOf(len),
                                 !.base = LastPageOf(len),
                                 !.returned = <<>>, !.failed = {}]
    /\ UNCHANGED <<btreeVars, cacheVars, heap, hist, tbl, rows>>

\* the storage is dropped and FileStorage::create is called: the file is
\* truncated, page 0 written (n cells of it when the write fails) and fsynced
Create(n) ==
    /\ \A t \in Threads : file.alloc[t] = None
    /\ file' = [FileCreated EXCEPT !.err = IF n = PAGE_SIZE THEN "none" ELSE "Io",
                                   !.open = n = PAGE_SIZE,
                                   !.synced = n = PAGE_SIZE,
                                   !.len = n]
    /\ UNCHANGED <<btreeVars, cacheVars, heap, hist, tbl, rows>>

NextFile ==
    \/ \E t \in Threads : FetchAdd(t)
    \/ \E t \in Threads : \E n \in 0..PAGE_SIZE : AllocWrite(t, n)
    \/ \E page_id \in 0..MaxFilePages : FileWrite(page_id)
    \/ \E len \in 0..((MaxFilePages + 1) * PAGE_SIZE) : Open(len)
    \/ \E n \in 0..PAGE_SIZE : Create(n)

SpecFile == InitCache /\ [][NextFile]_vars

(***************************************************************************)
(* SpecTable, SpecTableSeq and SpecTableWb: a Table (src/src/table.rs)     *)
(* over the page cache, on a storage fresh from FileStorage::create (page  *)
(* 0 only). The                                                            *)
(* frames hold heap pages. A call of Table is a call of get_page or        *)
(* get_page_mut (the steps of SpecCache), the work on the page under the   *)
(* guard, and the drop of the guard. rows is the history of the insert     *)
(* calls: the tuple, the RecordId returned, whether delete has been called *)
(* on it (deleted) and has returned Ok (gone). In SpecTable the threads    *)
(* insert, get and delete concurrently; in SpecTableSeq thread 1 is the    *)
(* only caller and also iterates; in SpecTableWb thread 1 is the only      *)
(* caller and the writeback thread of the page cache runs its cycles.      *)
(* Tuples are valid for the schema (validate_tuple passes).                *)
(***************************************************************************)
\* Table::insert calls made in one run
MaxRows == 4
\* calls one thread makes in SpecTable
MaxTableOps == 2
\* calls the caller makes in SpecTableWb; the calls of a thread are counted
\* up to this number
MaxCalls == 3
\* a tuple that fills a page on its own
BigTupleLen == 7
\* the lengths in cells of the tuples handed to insert
TupleLens == {MaxTupleLen, BigTupleLen}

\* the RecordIds returned by insert so far
Returned == {rows[i].rid[1] : i \in {j \in 1..Len(rows) : rows[j].rid # None}}

\* the thread is not inside a call of Table
TableAtRest(t) == tbl[t].pc = "idle" /\ tbl[t].kept = None /\ cth[t].pc = "idle"

\* the calls thread t has made
Calls(t) == IF tbl[t].nops < MaxCalls THEN tbl[t].nops + 1 ELSE MaxCalls

\* what the table steps leave alone
TableFrame == UNCHANGED <<btreeVars, heap, hist, file, map, free_list, eviction_policy,
                          nwrites, wb, written>>

\* the guard a thread holds, kept aside while the thread calls the cache
\* again, and that guard held again
Guard(rec) == [idx |-> rec.idx, page |-> rec.page, mode |-> rec.mode]
Holding(g) == [IdleCacheThread EXCEPT !.pc = "hold", !.page = g.page, !.idx = g.idx,
                  !.mode = g.mode, !.op = IF g.mode = "X" THEN "get_mut" ELSE "get"]

\* a call of get_page / get_page_mut starts: the lookup
Lookup(op, page_id) ==
    AfterLookup([IdleCacheThread EXCEPT !.op = op, !.page = <<0, page_id>>])

\* Table::insert(tuple): get_page_mut(last_page_id())
TableInsert(t, len) ==
    /\ TableAtRest(t)
    /\ Len(rows) < MaxRows
    /\ rows' = Append(rows, [tuple |-> [i \in 1..len |-> Len(rows) + 1],
                             rid |-> None, deleted |-> FALSE, gone |-> FALSE])
    /\ tbl' = [tbl EXCEPT ![t] = [IdleTable EXCEPT !.pc = "last", !.op = "insert",
                  !.row = Len(rows) + 1, !.nops = Calls(t)]]
    /\ cth' = [cth EXCEPT ![t] = Lookup("get_mut", last_page_id[0])]
    /\ UNCHANGED <<pages_metadata, frames, disk, last_page_id, dirty_pages>>
    /\ TableFrame

\* Table::insert: insert_tuple on the guarded page, set_page_dirty and the
\* RecordId made of metadata.page_id() and the slot
InsertDone(t, r) ==
    LET idx == cth[t].idx
        page_id == pages_metadata[idx].page_id
        recorded == IF dirty_pages = None THEN {} ELSE dirty_pages[1]
    IN  IF r.err = "none"
        THEN /\ frames' = [frames EXCEPT ![idx] = r.page]
             /\ pages_metadata' = [pages_metadata EXCEPT ![idx].dirty = TRUE]
             /\ dirty_pages' = Some(recorded \cup {<<cth[t].page[1], page_id[2]>>})
             /\ rows' = [rows EXCEPT ![tbl[t].row].rid = Some(<<page_id[2], r.slot_id>>)]
             /\ tbl' = [tbl EXCEPT ![t].pc = "idle",
                           ![t].res = Some([op |-> "insert", err |-> "none",
                                            val |-> <<page_id[2], r.slot_id>>])]
        ELSE /\ UNCHANGED <<frames, pages_metadata, dirty_pages, rows>>
             /\ tbl' = [tbl EXCEPT ![t].pc = "idle",
                           ![t].res = Some([op |-> "insert", err |-> r.err, val |-> <<>>])]

\* Table::insert on the last page: on NoFreeSpace new_page() is called (the
\* allocation of the page, as in Allocate) with the last page's guard kept
InsertLast(t) ==
    /\ tbl[t].pc = "last"
    /\ cth[t].pc = "hold"
    /\ LET r == insert_tuple(frames[cth[t].idx], rows[tbl[t].row].tuple)
       IN  IF r.err = "NoFreeSpace"
           THEN /\ last_page_id[0] < MaxPageId
                /\ last_page_id' = [last_page_id EXCEPT ![0] = @ + 1]
                /\ disk' = DiskWrite(disk, <<0, last_page_id[0] + 1>>, BlankPage)
                /\ tbl' = [tbl EXCEPT ![t].pc = "new", ![t].kept = Some(Guard(cth[t]))]
                /\ cth' = [cth EXCEPT ![t] = [IdleCacheThread EXCEPT !.op = "new",
                              !.newid = <<0, last_page_id[0] + 1>>, !.pc = "evict"]]
                /\ UNCHANGED <<frames, pages_metadata, dirty_pages, rows>>
           ELSE /\ InsertDone(t, r)
                /\ UNCHANGED <<last_page_id, disk, cth>>
    /\ TableFrame

\* Table::insert on the page new_page returned
InsertNew(t) ==
    /\ tbl[t].pc = "new"
    /\ cth[t].pc = "hold"
    /\ InsertDone(t, insert_tuple(frames[cth[t].idx], rows[tbl[t].row].tuple))
    /\ UNCHANGED <<last_page_id, disk, cth>>
    /\ TableFrame

\* Table::get(record_id): get_page(record_id.page_id)
TableGet(t, rid) ==
    /\ TableAtRest(t)
    /\ tbl' = [tbl EXCEPT ![t] = [IdleTable EXCEPT !.pc = "get", !.op = "get",
                  !.rid = rid, !.nops = Calls(t)]]
    /\ cth' = [cth EXCEPT ![t] = Lookup("get", rid[1])]
    /\ UNCHANGED <<pages_metadata, frames, disk, last_page_id, dirty_pages, rows>>
    /\ TableFrame

\* Table::get: get_tuple on the guarded page
GetTuple(t) ==
    /\ tbl[t].pc = "get"
    /\ cth[t].pc = "hold"
    /\ LET r == get_tuple(frames[cth[t].idx], tbl[t].rid[2])
       IN  tbl' = [tbl EXCEPT ![t].pc = "idle",
                      ![t].res = Some([op |-> "get", err |-> r.err, val |-> r.tuple])]
    /\ UNCHANGED <<pages_metadata, frames, disk, last_page_id, dirty_pages, rows, cth>>
    /\ TableFrame

\* Table::delete(record_id): get_page_mut(record_id.page_id)
TableDelete(t, rid) ==
    /\ TableAtRest(t)
    /\ tbl' = [tbl EXCEPT ![t] = [IdleTable EXCEPT !.pc = "delete", !.op = "delete",
                  !.rid = rid, !.nops = Calls(t)]]
    /\ rows' = [i \in 1..Len(rows) |->
                   IF rows[i].rid = Some(rid) THEN [rows[i] EXCEPT !.deleted = TRUE]
                   ELSE rows[i]]
    /\ cth' = [cth EXCEPT ![t] = Lookup("get_mut", rid[1])]
    /\ UNCHANGED <<pages_metadata, frames, disk, last_page_id, dirty_pages>>
    /\ TableFrame

\* Table::delete: delete_tuple on the guarded page, and Ok(())
DeleteTuple(t) ==
    /\ tbl[t].pc = "delete"
    /\ cth[t].pc = "hold"
    /\ LET r == delete_tuple(frames[cth[t].idx], tbl[t].rid[2])
       IN  /\ frames' = [frames EXCEPT ![cth[t].idx] = r.page]
           /\ rows' = [i \in 1..Len(rows) |->
                          IF rows[i].rid = Some(tbl[t].rid) /\ r.err = "none"
                          THEN [rows[i] EXCEPT !.gone = TRUE] ELSE rows[i]]
           /\ tbl' = [tbl EXCEPT ![t].pc = "idle",
                         ![t].res = Some([op |-> "delete", err |-> r.err, val |-> <<>>])]
    /\ UNCHANGED <<pages_metadata, disk, last_page_id, dirty_pages, cth>>
    /\ TableFrame

\* the call of the cache failed (PageCacheError): insert, get and delete
\* return the error, TableIterator::next returns None (.ok()?)
TableFail(t) ==
    /\ tbl[t].pc \in {"last", "new", "get", "delete", "iter", "cross"}
    /\ cth[t].pc = "idle"
    /\ tbl' = [tbl EXCEPT ![t].pc = "idle",
                  ![t].res = IF tbl[t].op = "iter"
                             THEN Some([op |-> "iter", err |-> "none", val |-> tbl[t].out])
                             ELSE Some([op |-> tbl[t].op, err |-> "PageCache",
                                        val |-> <<>>])]
    /\ UNCHANGED <<pages_metadata, frames, disk, last_page_id, dirty_pages, rows, cth>>
    /\ TableFrame

\* the end of a call that kept a guard (Table::insert's page_ref of the old
\* last page, TableIterator::next's page_ref), or the unwinding of a panic:
\* the kept guard is dropped
DropKept(t) ==
    /\ tbl[t].kept # None
    /\ \/ tbl[t].pc = "idle" /\ cth[t].pc = "idle"
       \/ cth[t].pc = "panicked"
    /\ tbl' = [tbl EXCEPT ![t].kept = None,
                          ![t].pc = IF cth[t].pc = "panicked" THEN "panicked" ELSE @]
    /\ cth' = [cth EXCEPT ![t] = Holding(tbl[t].kept[1])]
    /\ UNCHANGED <<pages_metadata, frames, disk, last_page_id, dirty_pages, rows>>
    /\ TableFrame

\* Table::iter() and the first TableIterator::next: get_page(first_page_id)
TableIter(t) ==
    /\ TableAtRest(t)
    /\ tbl' = [tbl EXCEPT ![t] = [IdleTable EXCEPT !.pc = "iter", !.op = "iter",
                  !.nops = Calls(t)]]
    /\ cth' = [cth EXCEPT ![t] = Lookup("get", 0)]
    /\ UNCHANGED <<pages_metadata, frames, disk, last_page_id, dirty_pages, rows>>
    /\ TableFrame

\* TableIterator::next, the loop on the guarded page: deleted slots are
\* passed, a tuple is yielded (the guard is dropped), and at the end of the
\* slots get_page(page_id + 1) is called with the guard kept
IterPage(t) ==
    /\ tbl[t].pc = "iter"
    /\ cth[t].pc = "hold"
    /\ LET page == frames[cth[t].idx]
           slot_id == CHOOSE k \in tbl[t].at[2]..(num_slots(page) + tbl[t].at[2]) :
                         /\ get_tuple(page, k).err # "SlotDeleted"
                         /\ \A j \in tbl[t].at[2]..(k - 1) :
                                get_tuple(page, j).err = "SlotDeleted"
           r == get_tuple(page, slot_id)
       IN  IF r.err = "none"
           THEN /\ tbl' = [tbl EXCEPT ![t].pc = "yield",
                              ![t].at = <<tbl[t].at[1], slot_id + 1>>,
                              ![t].out = Append(tbl[t].out, r.tuple)]
                /\ cth' = cth
           ELSE /\ tbl' = [tbl EXCEPT ![t].pc = "cross",
                              ![t].at = <<tbl[t].at[1] + 1, slot_id>>,
                              ![t].kept = Some(Guard(cth[t]))]
                /\ cth' = [cth EXCEPT ![t] = Lookup("get", tbl[t].at[1] + 1)]
    /\ UNCHANGED <<pages_metadata, frames, disk, last_page_id, dirty_pages, rows>>
    /\ TableFrame

\* the next call of TableIterator::next: get_page(self.page_id)
IterAgain(t) ==
    /\ tbl[t].pc = "yield"
    /\ cth[t].pc = "idle"
    /\ tbl' = [tbl EXCEPT ![t].pc = "iter"]
    /\ cth' = [cth EXCEPT ![t] = Lookup("get", tbl[t].at[1])]
    /\ UNCHANGED <<pages_metadata, frames, disk, last_page_id, dirty_pages, rows>>
    /\ TableFrame

\* TableIterator::next: page_ref = get_page(page_id + 1) succeeded; the
\* assignment drops the guard of the page before, and slot_id is 0
IterCrossed(t) ==
    /\ tbl[t].pc = "cross"
    /\ cth[t].pc = "hold"
    /\ tbl' = [tbl EXCEPT ![t].pc = "crossed", ![t].kept = Some(Guard(cth[t])),
                          ![t].at = <<tbl[t].at[1], 0>>]
    /\ cth' = [cth EXCEPT ![t] = Holding(tbl[t].kept[1])]
    /\ UNCHANGED <<pages_metadata, frames, disk, last_page_id, dirty_pages, rows>>
    /\ TableFrame

\* TableIterator::next: the loop goes on under the guard of the next page
IterResume(t) ==
    /\ tbl[t].pc = "crossed"
    /\ cth[t].pc = "idle"
    /\ tbl' = [tbl EXCEPT ![t].pc = "iter", ![t].kept = None]
    /\ cth' = [cth EXCEPT ![t] = Holding(tbl[t].kept[1])]
    /\ UNCHANGED <<pages_metadata, frames, disk, last_page_id, dirty_pages, rows>>
    /\ TableFrame

\* the steps of the page cache inside a call of Table; the guard a call
\* obtained is dropped when the call is done with the page
CacheSteps(t) ==
    \/ LookupVictim(t)
    \/ Latch(t)
    \/ Pin(t)
    \/ Access(t)
    \/ WriteVictim(t)
    \/ (cth[t].pc = "hold" => tbl[t].pc \in {"idle", "yield", "crossed", "panicked"})
           /\ Unpin(t)
    \/ CheckCounter(t)
    \/ MakeEvictable(t)
    \/ RemoveFromMap(t)
    \/ RemoveLatch(t)
    \/ RemoveFromPolicy(t)
    \/ RemoveToFreeList(t)
    \/ TakeFrame(t)
    \/ NewLatch(t)
    \/ NewMapEntry(t)
    \/ NewAccess(t)
    \/ ReadPage(t)
    \/ Evict(t)

\* the steps of insert, get and delete after the call
TableSteps(t) ==
    \/ InsertLast(t)
    \/ InsertNew(t)
    \/ GetTuple(t)
    \/ DeleteTuple(t)
    \/ TableFail(t)
    \/ DropKept(t)

\* Table::try_new over cache_storage(FileStorage::create(path))
InitTable == InitTree /\ SeqIdle /\ ConcIdle /\ CacheCreated(0)

NextTable ==
    \E t \in Threads :
        \/ \E len \in TupleLens : tbl[t].nops < MaxTableOps /\ TableInsert(t, len)
        \/ \E rid \in Returned : tbl[t].nops < MaxTableOps /\ TableGet(t, rid)
        \/ \E rid \in Returned : tbl[t].nops < MaxTableOps /\ TableDelete(t, rid)
        \/ TableSteps(t)
        \/ CacheSteps(t)

SpecTable == InitTable /\ [][NextTable]_vars

NextTableSeq ==
    \/ \E len \in TupleLens : TableInsert(1, len)
    \/ \E rid \in Returned : TableGet(1, rid)
    \/ \E rid \in Returned : TableDelete(1, rid)
    \/ TableIter(1)
    \/ TableSteps(1)
    \/ CacheSteps(1)
    \/ IterPage(1)
    \/ IterAgain(1)
    \/ IterCrossed(1)
    \/ IterResume(1)

SpecTableSeq == InitTable /\ [][NextTableSeq]_vars

\* thread 1 is the caller, WritebackThread runs the writeback cycles
NextTableWb ==
    \/ \E len \in TupleLens : tbl[1].nops < MaxCalls /\ TableInsert(1, len)
    \/ \E rid \in Returned : tbl[1].nops < MaxCalls /\ TableGet(1, rid)
    \/ \E rid \in Returned : tbl[1].nops < MaxCalls /\ TableDelete(1, rid)
    \/ TableSteps(1)
    \/ CacheSteps(1)
    \/ WbUpgrade
    \/ WbTake(WritebackThread)
    \/ WbCall(WritebackThread)
    \/ WbWrite(WritebackThread)
    \/ WbCycleEnd
    \/ WbUnwind
    \/ CacheSteps(WritebackThread)

SpecTableWb == InitTable /\ [][NextTableWb]_vars

(***************************************************************************)
(* SpecLeaf: BTreeLeafPage::insert and SplitLeaf::split as BTree::insert   *)
(* drives them, from a tree whose root is a leaf holding any keys. The     *)
(* fast path and the slow path of an insert are one step each.             *)
(***************************************************************************)
\* the strictly increasing sequence of the keys of set S
SortedSeq(S) ==
    CHOOSE q \in [1..Cardinality(S) -> S] :
        \A i \in 1..(Cardinality(S) - 1) : q[i] < q[i + 1]

\* a tree of one leaf holding up to B - 1 keys
InitLeaf ==
    /\ \E S \in SUBSET Keys :
           /\ Cardinality(S) <= BTREE_NUM_KEYS
           /\ pages = (1 :> [LeafInit EXCEPT
                                !.keys = SortedSeq(S),
                                !.vals = [i \in 1..Cardinality(S) |->
                                             1 + (SortedSeq(S)[i] % MaxRid)]])
           /\ kv = [k \in Keys |-> IF k \in S THEN Some(1 + (k % MaxRid)) ELSE None]
    /\ root = 1
    /\ lastPage = 1
    /\ last = NoOp
    /\ panicked = FALSE
    /\ ndel = 0
    /\ ConcIdle
    /\ CacheIdle

\* BTree::insert up to the call of insert_slow_path: find_leaf_page_mut,
\* leaf_page.insert, and either set_page_dirty and Ok(()) or
\* drop(leaf_page_ref) with the SplitLeaf handle
FastPath(key, rid) ==
    /\ ~panicked
    /\ last.res # Some("SplitLeaf")
    /\ LET leaf == FindLeaf(pages, root, key)
           r == LeafInsert(pages[leaf], key, rid)
       IN  /\ pages' = [pages EXCEPT ![leaf] = r.page]
           /\ panicked' = (r.kind = "dup")
           /\ kv' = IF r.kind = "ok" THEN [kv EXCEPT ![key] = Some(rid)] ELSE kv
           /\ last' = [op |-> "insert", key |-> key, rid |-> rid,
                       res |-> CASE r.kind = "dup" -> Some("panic")
                                 [] r.kind = "ok" -> Some("Ok")
                                 [] r.kind = "split" -> Some("SplitLeaf"),
                       dirty |-> IF r.kind = "ok" THEN {leaf} ELSE {}]
           /\ thr' = [thr EXCEPT ![1].held =
                          IF r.kind = "split" THEN HeldIntoSlowPath(leaf) ELSE <<>>]
    /\ UNCHANGED <<root, lastPage, ndel, overlap, cacheVars, tableVars>>

\* BTree::insert_slow_path for the insert whose fast path met a full leaf
SlowPath ==
    /\ last.res = Some("SplitLeaf")
    /\ LET r == InsertSlowPath(pages, lastPage, root, last.key, last.rid)
       IN  /\ pages' = r.pages
           /\ lastPage' = r.last
           /\ root' = r.root
           /\ panicked' = r.panic
           /\ kv' = [kv EXCEPT ![last.key] = Some(last.rid)]
           /\ last' = [last EXCEPT !.res = IF r.panic THEN Some("panic") ELSE Some("Ok"),
                                   !.dirty = r.dirty]
    /\ thr' = [thr EXCEPT ![1].held = <<>>]
    /\ UNCHANGED <<ndel, overlap, cacheVars, tableVars>>

NextLeaf ==
    \/ \E key \in Keys : FastPath(key, RidFor(key))
    \/ SlowPath

SpecLeaf == InitLeaf /\ [][NextLeaf]_vars


(***************************************************************************)
(* What the claims speak of.                                               *)
(***************************************************************************)
\* the leaves of the tree, left to right as the inner pages route to them
RECURSIVE LeavesInOrder(_, _)
RECURSIVE LeavesOfPtrs(_, _, _)
LeavesOfPtrs(pgs, ptrs, i) ==
    IF i > Len(ptrs) THEN <<>>
    ELSE LeavesInOrder(pgs, ptrs[i]) \o LeavesOfPtrs(pgs, ptrs, i + 1)
LeavesInOrder(pgs, pid) ==
    IF pgs[pid].type = "leaf" THEN <<pid>>
    ELSE LeavesOfPtrs(pgs, pgs[pid].ptrs, 1)

\* the leaves met by following next_page_id from leaf pid
RECURSIVE ChainFrom(_, _, _)
ChainFrom(pgs, pid, fuel) ==
    IF pid = PAGE_INVALID \/ fuel = 0 THEN <<>>
    ELSE <<pid>> \o ChainFrom(pgs, pgs[pid].next, fuel - 1)

\* the pairs of map m with key >= k, in key order
RECURSIVE PairsFrom(_, _)
PairsFrom(m, k) ==
    IF k > MaxKey THEN <<>>
    ELSE (IF m[k] # None THEN <<<<k, m[k][1]>>>> ELSE <<>>) \o PairsFrom(m, k + 1)

NumKeysIn(m) == Cardinality({k \in Keys : m[k] # None})

\* C1: in every state reached by inserts (in any key order) and deletes issued
\* one at a time, search(k) returns Some(rid) with the rid last given to
\* insert(k, rid) for every key inserted and not deleted, and None for every
\* other key.
C1_SearchFindsInserted == \A k \in Keys : Search(pages, root, k) = kv[k]

\* C1 witness: five keys are in the tree, the root has been replaced twice (it
\* is an inner page over inner pages, so an inner page has split) and nothing
\* was deleted.
C1_Witness ==
    /\ ~panicked
    /\ ndel = 0
    /\ NumKeysIn(kv) >= 5
    /\ pages[root].type = "inner"
    /\ pages[pages[root].ptrs[1]].type = "inner"

\* C2: threads insert pairwise-disjoint key sets concurrently, through the
\* fast path and the slow path: no insert panics, every insert that returned
\* returned Ok, and once every call has returned each inserted key is found
\* with the rid it was inserted with (and no other key is found).
C2_ConcurrentInserts ==
    /\ \A t \in Threads : thr[t].pc # "panicked"
    /\ \A t \in Threads : thr[t].res # None => thr[t].res = Some("Ok")
    /\ Quiescent => \A k \in ConcKeys : Search(pages, root, k) = kv[k]

\* C2 witness: every key of both threads is in, the tree has three levels,
\* and a leaf was split while the other thread was inside an insert.
C2_Witness ==
    /\ Quiescent
    /\ overlap
    /\ \A k \in ConcKeys : kv[k] # None
    /\ \A t \in Threads : thr[t].nops >= 2
    /\ pages[root].type = "inner"
    /\ pages[pages[root].ptrs[1]].type = "inner"

\* C3: in every interleaving of search, insert and delete, each operation
\* returns what the sequential key -> rid map returns at the moment the
\* operation works on its latched leaf (a moment between its call and its
\* return), and when no operation is running the tree holds exactly that map.
C3_Linearizable ==
    /\ \A t \in Threads : thr[t].res # None => thr[t].res = thr[t].exp
    /\ Quiescent => \A k \in Keys \cup ConcKeys : Search(pages, root, k) = kv[k]

\* C3 witness: a search found its key although a page was split between the
\* call of the search and its return, the other thread having inserted.
C3_Witness ==
    \E t \in Threads :
        /\ thr[t].op = "search"
        /\ thr[t].pc = "idle"
        /\ thr[t].res # None
        /\ thr[t].res[1] # None
        /\ lastPage > thr[t].start
        /\ \E u \in Threads \ {t} : thr[u].op = "insert"

\* C4: a delete(k) step on a tree holding k returns Ok and leaves search(k) =
\* None; on a tree not holding k it returns KeyNotFound and changes no page;
\* either way search(k') is unchanged for every other key, and no page is
\* freed, merged or relinked: the set of pages, the root, every inner page and
\* every other leaf stay as they were.
C4_Delete ==
    [][last'.op = "delete" =>
        LET k == last'.key
            leaf == FindLeaf(pages, root, k)
        IN  /\ kv[k] # None =>
                   last'.res = Some("Ok") /\ Search(pages', root', k) = None
            /\ kv[k] = None => last'.res = Some("KeyNotFound") /\ pages' = pages
            /\ \A k2 \in Keys \ {k} :
                   Search(pages', root', k2) = Search(pages, root, k2)
            /\ DOMAIN pages' = DOMAIN pages
            /\ root' = root /\ lastPage' = lastPage /\ ~panicked'
            /\ \A p \in DOMAIN pages \ {leaf} : pages'[p] = pages[p]
            /\ pages'[leaf].type = "leaf" /\ pages'[leaf].next = pages[leaf].next]_vars

\* C4 witness: a delete returned Ok on a tree of several leaves that still
\* holds other keys.
C4_Witness ==
    /\ last.op = "delete"
    /\ last.res = Some("Ok")
    /\ pages[root].type = "inner"
    /\ NumKeysIn(kv) >= 3

\* C5: in a tree built by inserts in any key order, iter(start) yields
\* exactly the pairs with key >= start, each once, in increasing key order,
\* and then ends. (Stated for trees no delete has touched: the leaves iter
\* misses are missing from the chain insert_leaf builds.)
C5_IterExact ==
    (last.op = "iter" /\ ndel = 0) => last.res = PairsFrom(kv, last.key)

\* C6: following next_page_id from the leftmost leaf visits every leaf of the
\* tree exactly once, in the order of their keys, and ends at the invalid
\* sentinel.
C6_LeafChain ==
    LET inorder == LeavesInOrder(pages, root)
    IN  ChainFrom(pages, inorder[1], Cardinality(DOMAIN pages) + 1) = inorder

\* C7: an insert step for a key that is present panics, whether or not the
\* key's leaf is full, and leaves every page, the root and every search result
\* as they were; an insert step for a key that is absent does not panic.
C7_DuplicatePanics ==
    [][last'.op = "insert" =>
        IF kv[last'.key] # None
        THEN /\ panicked' /\ last'.res = Some("panic")
             /\ pages' = pages /\ root' = root /\ lastPage' = lastPage
             /\ kv' = kv
        ELSE ~panicked' /\ last'.res = Some("Ok")]_vars

\* C7 witness: the insert of a present key panicked on a full leaf (the fast
\* path would have handed the key to the slow path had it been absent).
C7_Witness ==
    /\ panicked
    /\ last.op = "insert"
    /\ Len(pages[FindLeaf(pages, root, last.key)].keys) = BTREE_NUM_KEYS
    /\ pages[root].type = "inner"

\* C8: the page MemCache::evict() returns has pin count 0 at the moment it
\* is returned.
C8_EvictedPageUnpinned ==
    [][\A t \in Threads :
          (cth[t].pc = "evict" /\ cth'[t].pc = "lookup" /\ cth'[t].page \in DOMAIN map)
              => pages_metadata[map[cth'[t].page]].counter = 0]_vars

\* C9: no entry is taken out of the page table while the pin count of its
\* frame is above 0.
C9_NoRemoveWhilePinned ==
    [][\A p \in DOMAIN map :
          p \notin DOMAIN map' => pages_metadata[map[p]].counter = 0]_vars

\* C10: a frame goes to the free list only when its bytes are the bytes the
\* disk holds for the page it held.
C10_RecycledFrameIsOnDisk ==
    [][\A i \in FrameIds :
          (i \in SeqElems(free_list') /\ i \notin SeqElems(free_list))
              => frames[i] = disk[pages_metadata[i].page_id]]_vars

\* the frame indexes the page table maps some page to
MappedFrames == {map[p] : p \in DOMAIN map}

\* C13: in every reachable state, the states between the steps of
\* new_page_mut and of remove_page included, every frame index is the value
\* of a page-table entry or an element of the free list.
C13_FramesAccounted ==
    \A i \in FrameIds : i \in MappedFrames \/ i \in SeqElems(free_list)

\* the threads that hold a live guard of mode m on frame i
GuardsOn(i, m) == {t \in Threads : cth[t].mode = m /\ cth[t].idx = i}

\* C14: on every frame the live guards are one write guard or any number of
\* read guards, never a write guard together with another guard; downgrade
\* and the re-initialisation of a frame by new_page_mut included.
C14_LatchExclusion ==
    \A i \in FrameIds :
        \/ GuardsOn(i, "X") = {}
        \/ Cardinality(GuardsOn(i, "X")) = 1 /\ GuardsOn(i, "S") = {}

\* a thread holds the write guard new_page_mut gave it on a frame
\* while another thread, which looked the frame up, waits for its latch
C14_Witness ==
    \E t \in Threads, u \in Threads :
        /\ t # u
        /\ cth[t].mode = "X" /\ cth[t].pc \in {"new_map", "new_lru", "read"}
        /\ cth[u].pc = "latch" /\ cth[u].idx = cth[t].idx

\* C15: new_page, get_page and get_page_mut return MemCacheError::Full only
\* when the free list is empty and no resident frame is unpinned; with a
\* free frame or a victim of pin count 0 they obtain a frame.
C15_FullOnlyWhenAllPinned ==
    [][\A t \in Threads :
          (cth[t].pc = "alloc_frame" /\ cth'[t].pc = "idle")
              => /\ free_list = <<>>
                 /\ \A p \in DOMAIN map : pages_metadata[map[p]].counter > 0]_vars

\* the pages whose in-memory bytes a step of Spec changes: pages of the
\* tree that are new or differ, and the superblock when root_page_id changes
ModifiedPages ==
    {p \in DOMAIN pages' : p \notin DOMAIN pages \/ pages'[p] # pages[p]}
        \cup (IF root' # root THEN {PAGE_RESERVED} ELSE {})

\* C18: every page a successful insert modifies (the leaf, a new right
\* sibling, every inner ancestor that received a separator, a new root, the
\* superblock when root_page_id changed) is marked dirty and recorded in the
\* dirty set, so that the writeback cycle that follows the insert, which
\* writes the pages of the dirty set, leaves their on-disk bytes equal to
\* the in-memory bytes.
C18_InsertMarksDirty ==
    [][(last'.op = "insert" /\ last'.res = Some("Ok") /\ ~panicked')
          => ModifiedPages \subseteq last'.dirty]_vars

\* the pages one level below page p: the root below the superblock, the
\* children below an inner page
Children(p) ==
    IF p = PAGE_RESERVED THEN {root}
    ELSE IF pages[p].type = "inner" THEN SeqElems(pages[p].ptrs)
    ELSE {}

RECURSIVE Descendants(_, _)
Descendants(p, fuel) ==
    IF fuel = 0 THEN {}
    ELSE Children(p) \cup UNION {Descendants(c, fuel - 1) : c \in Children(p)}

Below(p) == Descendants(p, Cardinality(DOMAIN pages) + 1)

\* the thread is at a latch request
AtLatchRequest(t) ==
    thr[t].pc \in {"sb", "root", "at", "upgrade", "slow_sb", "slow_root", "slow_at"}

\* the page whose latch it requests
Wanted(t) ==
    IF thr[t].pc \in {"sb", "slow_sb"} THEN PAGE_RESERVED ELSE thr[t].target

\* latches are held and requested top-down: the pages a thread holds lie on
\* one path, upper pages first, and the page it requests is none of them
\* and no ancestor of any of them
TopDown ==
    \A t \in Threads :
        /\ \A i \in 1..Len(thr[t].held), j \in 1..Len(thr[t].held) :
               i < j => thr[t].held[j].p \in Below(thr[t].held[i].p)
        /\ AtLatchRequest(t) =>
               \A i \in 1..Len(thr[t].held) :
                   /\ thr[t].held[i].p # Wanted(t)
                   /\ thr[t].held[i].p \notin Below(Wanted(t))

\* some thread inside an operation can take its next step
NoDeadlock ==
    Quiescent \/ \E t \in Threads :
                     Running(t) /\ ENABLED (InsertSteps(t) \/ ReadLeaf(t))

\* C20: every operation of the index acquires its latches top-down
\* (superblock, root, ..., leaf) and never requests the latch of an ancestor
\* of a page it holds; no reachable state of concurrent search, insert (fast
\* and slow path) and delete is a deadlock, and under fair scheduling every
\* operation returns.
C20_TopDownNoDeadlock ==
    /\ [](TopDown /\ NoDeadlock)
    /\ \A t \in Threads : Running(t) ~> ~Running(t)

\* a slow-path insert holds the superblock, the root and a leaf exclusively
\* while the other thread waits for the superblock
C20_Witness ==
    \E t \in Threads, u \in Threads :
        /\ thr[t].pc = "slow_leaf" /\ Len(thr[t].held) >= 3
        /\ thr[u].pc \in {"sb", "slow_sb"}

\* the bytes last written to a page through a write guard
WrittenTo(page_id) == IF page_id \in DOMAIN written THEN written[page_id] ELSE None

\* C11: with no concurrent operations and a single storage, a page whose
\* bytes were written under a write guard, whose guard was dropped and which
\* new_page then evicted, is obtained again by get_page or get_page_mut, and
\* the bytes seen are the bytes written before the eviction. (In SpecSeq a
\* written page that is not resident has been evicted by new_page.)
C11_EvictedPageReadBack ==
    [][\A t \in Threads :
          (/\ cth[t].op \in {"get", "get_mut"}
           /\ DOMAIN last_page_id = {0}
           /\ WrittenTo(cth[t].page) # None)
          => /\ cth[t].pc = "alloc_frame" => cth'[t].pc # "idle"
             /\ (cth[t].pc = "read" /\ cth'[t].pc = "hold")
                    => frames'[cth[t].idx] = WrittenTo(cth[t].page)[1]]_vars

\* C12: with two storages attached, when new_page on one storage evicts a
\* page of the other, the victim's bytes are written to the victim's page
\* in the victim's storage, and no other on-disk page is modified by the
\* eviction.
C12_VictimWrittenToOwnStorage ==
    [][\A t \in Threads :
          (/\ cth[t].pc = "write" /\ cth'[t].pc = "unpin"
           /\ cth[t].page[1] # cth[t].newid[1])
          => disk' = DiskWrite(disk, cth[t].page, frames[cth[t].idx])]_vars

\* the resident pages of pin count 0, and the one accessed longest ago
UnpinnedPages == {k \in DOMAIN map : pages_metadata[map[k]].counter = 0}
AccessPos(k) ==
    CHOOSE i \in 1..Len(eviction_policy.last_access) : eviction_policy.last_access[i] = k
OldestUnpinned ==
    IF UnpinnedPages = {} THEN None
    ELSE Some(CHOOSE k \in UnpinnedPages :
                  \A j \in UnpinnedPages : AccessPos(k) <= AccessPos(j))

\* C16: evict() returns None when the free list is not empty; when it is
\* empty it returns the resident page of pin count 0 whose last access is
\* the oldest (None when there is none), never a pinned page even if that
\* page was accessed earlier; a page pinned and unpinned again keeps the
\* position of its last access.
C16_EvictOldestUnpinned ==
    [][\A t \in Threads :
          (cth[t].pc = "evict" /\ cth'[t].pc # "evict")
          => LET victim == IF cth'[t].pc = "lookup" THEN Some(cth'[t].page) ELSE None
             IN  IF free_list # <<>> THEN victim = None
                 ELSE victim = OldestUnpinned]_vars

\* evict() has just returned a page while a page accessed before it is
\* resident and pinned
C16_Witness ==
    \E t \in Threads :
        /\ cth[t].pc = "lookup" /\ cth[t].op = "new"
        /\ Some(cth[t].page) = OldestUnpinned
        /\ \E k \in DOMAIN map :
               /\ pages_metadata[map[k]].counter > 0
               /\ AccessPos(k) < AccessPos(cth[t].page)

\* a handle of the facade exists
FacadeAlive == wb.handles > 0

\* the page is in the dirty set
Recorded(page_id) == dirty_pages # None /\ page_id \in dirty_pages[1]

\* the page has been written back: its frame is clean and its storage holds
\* the frame's bytes
WrittenBack(page_id) ==
    /\ page_id \in DOMAIN map
    /\ ~pages_metadata[map[page_id]].dirty
    /\ disk[page_id] = frames[map[page_id]]

AllPages == (0..(MaxStorages - 1)) \X (0..MaxPageId)

\* C17: under fair scheduling and while the facade is alive, every page
\* recorded by set_page_dirty is eventually written to its own storage with
\* the bytes current at the time of the write and its dirty flag cleared,
\* and the writeback task completes every cycle without aborting, whether
\* the page is still resident or not and whether the pool is full or not.
C17_DirtyPagesWrittenBack ==
    /\ [](FacadeAlive => cth[WritebackThread].pc # "panicked")
    /\ \A page_id \in AllPages :
           (FacadeAlive /\ Recorded(page_id))
               ~> (WrittenBack(page_id) \/ ~FacadeAlive)

\* C19: when the last user-held handle is dropped, wherever the writeback
\* thread is in its cycle (asleep, or holding its upgraded reference), the
\* writeback thread terminates, the drop completes without deadlock or
\* panic, and every entry that was in the dirty set has been written.
C19_DropTerminatesAndFlushes ==
    /\ [](wb.wt \notin SelfJoin)
    /\ [](wb.drop = "done" =>
             /\ dirty_pages = None
             /\ \A t \in Threads : wb.proc[t].todo = {}
             /\ \A i \in FrameIds : ~pages_metadata[i].dirty)
    /\ (wb.handles = 0) ~> (wb.wt = "exited" /\ wb.drop = "done")

\* the free space of a heap page as the specification counts it: the lowest
\* offset of a tuple ever written (DATA_SIZE when there is none) minus the
\* slot array
LowestOffset(slots) ==
    IF slots = <<>> THEN DATA_SIZE
    ELSE CHOOSE o \in {slots[i].offset : i \in 1..Len(slots)} :
             \A i \in 1..Len(slots) : o <= slots[i].offset
CountedFree(slots) == LowestOffset(slots) - Len(slots) * SLOT_SIZE

\* C24: insert_tuple succeeds exactly when the free space (lowest tuple
\* offset, or DATA_SIZE when empty, minus num_slots * SLOT_SIZE) is at least
\* SLOT_SIZE + the tuple's size; on success it returns the previous num_slots
\* and the free space shrinks by exactly SLOT_SIZE + the tuple's size; on
\* NoFreeSpace the page is unchanged.
C24_InsertIffFreeSpace ==
    [][hist'.last.op = "insert" =>
          LET len == hist'.last.arg
              ok == hist'.last.err = "none"
          IN  /\ ok <=> CountedFree(hist.slots) >= SLOT_SIZE + len
              /\ free_space(heap) = CountedFree(hist.slots)
              /\ ok => /\ hist'.last.slot_id = num_slots(heap)
                       /\ num_slots(heap') = num_slots(heap) + 1
                       /\ CountedFree(hist'.slots) = CountedFree(hist.slots) - (SLOT_SIZE + len)
                       /\ free_space(heap') = free_space(heap) - (SLOT_SIZE + len)
              /\ ~ok => /\ hist'.last.err = "NoFreeSpace"
                        /\ heap' = heap]_vars

\* an insert was refused on a page that holds two tuples, after one succeeded
\* on a page that held a deleted slot
C24_Witness ==
    /\ hist.last.op = "insert"
    /\ hist.last.err = "NoFreeSpace"
    /\ Len(hist.slots) >= 2
    /\ hist.slots[1].deleted

\* the cells [offset, offset + len) a slot was given when it was assigned
CellsOf(slot) == slot.offset..(slot.offset + Len(slot.tuple) - 1)

\* C25: after any sequence of insert_tuple and delete_tuple the cell ranges
\* of all slots ever assigned are pairwise disjoint and disjoint from the
\* slot array, and get_tuple of a slot that was not deleted returns exactly
\* the bytes inserted for it.
C25_TuplesDisjointAndKept ==
    /\ num_slots(heap) = Len(hist.slots)
    /\ \A i \in 1..Len(hist.slots) :
          /\ CellsOf(hist.slots[i]) \subseteq (Len(hist.slots) * SLOT_SIZE)..(DATA_SIZE - 1)
          /\ \A j \in 1..Len(hist.slots) :
                i # j => CellsOf(hist.slots[i]) \cap CellsOf(hist.slots[j]) = {}
          /\ ~hist.slots[i].deleted =>
                get_tuple(heap, i - 1) = [err |-> "none", tuple |-> hist.slots[i].tuple]

\* a tuple is read back after an earlier slot was deleted and a later one
\* inserted
C25_Witness ==
    /\ Len(hist.slots) = 3
    /\ hist.slots[1].deleted
    /\ ~hist.slots[2].deleted
    /\ hist.last.op = "insert"
    /\ hist.last.err = "none"
    /\ get_tuple(heap, 1).tuple = hist.slots[2].tuple

\* C26: delete_tuple(s) returns SlotNotFound and changes nothing when
\* s >= num_slots; otherwise get_tuple(s) returns SlotDeleted afterwards;
\* deleting a deleted slot leaves the page as it was; a delete never changes
\* num_slots, the free space, or any other slot.
C26_DeleteTombstones ==
    [][hist'.last.op = "delete" =>
          LET s == hist'.last.arg
          IN  /\ s >= num_slots(heap) => hist'.last.err = "SlotNotFound" /\ heap' = heap
              /\ s < num_slots(heap) =>
                    /\ hist'.last.err = "none"
                    /\ get_tuple(heap', s).err = "SlotDeleted"
                    /\ hist.slots[s + 1].deleted => heap' = heap
              /\ num_slots(heap') = num_slots(heap)
              /\ free_space(heap') = free_space(heap)
              /\ CountedFree(hist'.slots) = CountedFree(hist.slots)
              /\ \A o \in 0..MaxSlots :
                    o # s => /\ get_slot(heap', o) = get_slot(heap, o)
                             /\ get_tuple(heap', o) = get_tuple(heap, o)]_vars

\* the last slot of a page of two slots or more was deleted
C26_Witness ==
    /\ hist.last.op = "delete"
    /\ hist.last.err = "none"
    /\ Len(hist.slots) >= 2
    /\ hist.last.arg + 1 = Len(hist.slots)

\* page page_id lies within the file
OnDisk(page_id) == (page_id + 1) * PAGE_SIZE <= file.len
InFlight == {file.alloc[t][1] : t \in {u \in Threads : file.alloc[u] # None}}

\* C27: allocate_page calls, sequential or concurrent, return pairwise
\* distinct page ids, consecutive from the previous last_page_id + 1; when a
\* call returns p, page p is on disk and reads as zeros; and whenever
\* last_page_id() returns p, page p exists on disk, also after an allocation
\* whose write failed.
C27_AllocatedPagesOnDisk ==
    /\ [](file.open =>
            /\ \A i, j \in 1..Len(file.returned) :
                  i # j => file.returned[i] # file.returned[j]
            /\ {file.returned[i] : i \in 1..Len(file.returned)} \cup file.failed \cup InFlight
                  = (file.base + 1)..file.last_page_id
            /\ OnDisk(file.last_page_id))
    /\ [][Len(file'.returned) > Len(file.returned) =>
             LET id == file'.returned[Len(file'.returned)]
             IN  (id + 1) * PAGE_SIZE <= file'.len /\ id \notin file'.data]_vars

\* C28: open fails with FileCorrupted exactly when the length of the file is
\* 0 or not a multiple of PAGE_SIZE; otherwise it sets last_page_id to
\* len / PAGE_SIZE - 1, so that the first allocate_page after reopening gets
\* an id that is not the id of a page of the file; create leaves a file of
\* exactly one zero-filled, fsynced page 0.
C28_OpenChecksLength ==
    /\ [][file'.op = "open" =>
             /\ (file'.err = "FileCorrupted") <=>
                    (file'.len = 0 \/ file'.len % PAGE_SIZE # 0)
             /\ file'.err # "FileCorrupted" =>
                    /\ file'.err = "none" /\ file'.open
                    /\ file'.last_page_id = file'.len \div PAGE_SIZE - 1]_vars
    /\ [][file.op = "open" /\ file'.op = "fetch_add" =>
             \E t \in Threads :
                /\ file.alloc[t] = None /\ file'.alloc[t] # None
                /\ ~OnDisk(file'.alloc[t][1])]_vars
    /\ [][file'.op = "create" /\ file'.err = "none" =>
             /\ file'.open /\ file'.synced
             /\ file'.len = PAGE_SIZE /\ file'.data = {}
             /\ file'.last_page_id = 0]_vars

\* a file of two pages or more was opened and the first allocate_page after
\* that returned
C28_Witness ==
    /\ file.op = "allocate"
    /\ file.err = "none"
    /\ file.base >= 1
    /\ file.returned = <<file.base + 1>>

\* C29: in the fast-path insert and in delete, at the moment the thread
\* requests the exclusive latch on the leaf it holds no latch on any ancestor
\* of that leaf: neither the parent inner page nor, when the root is a leaf,
\* the superblock.
C29_NoAncestorHeldAtUpgrade ==
    \A t \in Threads :
        thr[t].pc = "upgrade" =>
            \A i \in 1..Len(thr[t].held) : thr[t].target \notin Below(thr[t].held[i].p)

\* C29 as the code has it: at the moment the thread requests the exclusive
\* latch on the leaf it has given up the leaf's shared latch and holds exactly
\* one latch, the shared latch of the page it reached the leaf from: the
\* parent inner page, or the superblock when the root is a leaf.
C29_ParentHeldAtUpgrade ==
    \A t \in Threads :
        thr[t].pc = "upgrade" =>
            /\ pages[thr[t].target].type = "leaf"
            /\ Len(thr[t].held) = 1
            /\ thr[t].held[1].m = "S"
            /\ thr[t].target \in Children(thr[t].held[1].p)

\* a delete requests the exclusive latch of a leaf below an inner page while
\* another thread holds that leaf
C29_Witness ==
    \E t \in Threads, u \in Threads :
        /\ thr[t].pc = "upgrade"
        /\ thr[t].op = "delete"
        /\ thr[t].held[1].p # PAGE_RESERVED
        /\ u # t
        /\ HoldsAny(u, thr[t].target)

\* the positions of a thread inside insert_slow_path once it has the superblock
InSlowPath(t) == thr[t].pc \in {"slow_root", "slow_at", "slow_leaf", "slow_unwind"}

\* C30 as stated: a slow-path insert keeps the exclusive latch of the
\* superblock and of every page of the root-to-leaf path, once acquired,
\* until the insert returns.
C30_PathHeldUntilReturn ==
    [][\A t \in Threads :
          (InSlowPath(t) /\ thr'[t].pc \in {"slow_root", "slow_at", "slow_leaf", "slow_unwind"})
              => \A i \in 1..Len(thr[t].held) :
                     \E j \in 1..Len(thr'[t].held) : thr'[t].held[j] = thr[t].held[i]]_vars

\* C30: a slow-path insert holds, all exclusive and beside no other thread,
\* the latch of the superblock and of the pages of the path from the root to
\* the page it works on; it releases a page below the root only when the
\* insert_inner_r call on the page's parent returns, after the parent (or the
\* parent's new sibling) has taken the separator of the page's new sibling,
\* and the superblock and the root only when the insert returns. Hence
\* (a) root_page_id is read for update and written under the superblock's
\* exclusive latch only, and (b) no other thread latches a page that has
\* split while the sibling is not yet installed.
C30_SlowPathHoldsPath ==
    /\ [](\A t \in Threads :
             InSlowPath(t) =>
                 LET h == thr[t].held
                     n == Len(h)
                 IN  /\ n >= 1
                     /\ h[1] = XLatch(PAGE_RESERVED)
                     /\ \A i \in 1..n :
                            /\ h[i].m = "X"
                            /\ \A u \in Threads \ {t} : ~HoldsAny(u, h[i].p)
                     /\ \A i \in 2..n : h[i].p \in Children(h[i - 1].p)
                     /\ thr[t].pc \in {"slow_root", "slow_at"}
                            => thr[t].target \in Children(h[n].p)
                     /\ thr[t].pc \in {"slow_leaf", "slow_unwind"} => n >= 2
                     /\ (thr[t].pc = "slow_unwind" /\ thr[t].carry # None)
                            => thr[t].carry[1][2] \notin Below(PAGE_RESERVED))
    /\ [][\A t \in Threads :
             (InSlowPath(t) /\ thr'[t].pc \in {"slow_root", "slow_at", "slow_leaf", "slow_unwind"})
                 => LET h == thr[t].held
                        g == thr'[t].held
                        n == Len(h)
                    IN  /\ Len(g) >= n - 1
                        /\ \A i \in 1..n : i <= Len(g) => g[i] = h[i]
                        /\ Len(g) < n =>
                               /\ thr[t].pc = "slow_unwind"
                               /\ n > 2
                               /\ thr[t].carry # None =>
                                      \/ thr[t].carry[1][2] \in SeqElems(pages'[h[n - 1].p].ptrs)
                                      \/ /\ thr'[t].carry # None
                                         /\ thr[t].carry[1][2] \in
                                                SeqElems(pages'[thr'[t].carry[1][2]].ptrs)]_vars
    /\ [][root' # root =>
             \E t \in Threads : /\ thr[t].pc = "slow_unwind"
                                /\ thr[t].held = <<XLatch(PAGE_RESERVED), XLatch(root)>>
                                /\ thr'[t].pc = "idle"]_vars

\* a slow-path insert below an inner root has split a leaf and holds the
\* superblock, the root and the leaf while another thread waits for the
\* superblock
C30_Witness ==
    \E t \in Threads, u \in Threads :
        /\ thr[t].pc = "slow_unwind"
        /\ Len(thr[t].held) = 3
        /\ thr[t].carry # None
        /\ u # t
        /\ thr[u].pc \in {"sb", "slow_sb"}

\* thread t panicked inside a call of Table
TablePanicked(t) == cth[t].pc = "panicked" \/ tbl[t].pc = "panicked"

\* the RecordIds insert returned are pairwise different
RidsDistinct ==
    \A i \in 1..Len(rows), j \in 1..Len(rows) :
        (i < j /\ rows[i].rid # None /\ rows[j].rid # None) => rows[i].rid # rows[j].rid

\* a get of a RecordId that insert returned and delete was not called on
\* returns the tuple inserted
GetReturnsInserted ==
    [][\A t \in Threads :
          (tbl[t].pc = "get" /\ tbl'[t].pc = "idle")
              => \A i \in 1..Len(rows) :
                     (rows[i].rid = Some(tbl[t].rid) /\ ~rows'[i].deleted)
                         => /\ tbl'[t].res[1].err = "none"
                            /\ tbl'[t].res[1].val = rows[i].tuple]_vars

\* no insert ends in a panic
NoInsertAborts == \A t \in Threads : tbl[t].op = "insert" => ~TablePanicked(t)

\* C21: every successful Table::insert returns a RecordId different from
\* every RecordId returned before, Table::get(rid) returns the values
\* inserted under rid until Table::delete(rid) is called, and no concurrent
\* insert aborts.
C21_InsertUniqueGetReturns ==
    /\ []RidsDistinct
    /\ GetReturnsInserted
    /\ []NoInsertAborts

\* the tuples inserted and not deleted, in the order of their insertion
LiveTuples ==
    LET live == SelectSeq(rows, LAMBDA r : r.rid # None /\ ~r.gone)
    IN  [i \in 1..Len(live) |-> live[i].tuple]

\* C22: with no concurrent operations, Table::iter yields exactly the tuples
\* that were inserted and not deleted, each once, in insertion order, and
\* nothing on an empty table.
C22_IterYieldsLiveTuples ==
    [][(tbl[1].op = "iter" /\ tbl[1].pc # "idle" /\ tbl'[1].pc = "idle")
          => tbl'[1].res[1].val = LiveTuples]_vars

\* a successful Table::delete leaves the page of the RecordId with its dirty
\* flag set and recorded in dirty_pages, or in the set a running writeback
\* cycle has taken from dirty_pages and has not written yet
DeleteMarksDirty ==
    [][(tbl[1].pc = "delete" /\ tbl'[1].pc = "idle" /\ tbl'[1].res[1].err = "none")
          => LET page_id == <<0, tbl[1].rid[1]>>
             IN  /\ pages_metadata'[cth[1].idx].dirty
                 /\ \/ dirty_pages' # None /\ page_id \in dirty_pages'[1]
                    \/ page_id \in wb'.proc[WritebackThread].todo
                    \/ /\ cth'[WritebackThread].op = "wb"
                       /\ cth'[WritebackThread].page = page_id
                       /\ cth'[WritebackThread].pc # "idle"]_vars

\* a tombstone that no writeback cycle will write: the delete returned Ok,
\* the writeback thread sleeps with nothing recorded, and storage still has
\* the tuple
TombstoneLost ==
    /\ wb.wt = "sleep" /\ dirty_pages = None /\ TableAtRest(1)
    /\ \E i \in 1..Len(rows) :
           /\ rows[i].gone
           /\ get_tuple(disk[<<0, rows[i].rid[1][1]>>], rows[i].rid[1][2]).err = "none"

\* a get of a RecordId whose delete has returned Ok fails with SlotDeleted
GetAfterDelete ==
    [][(tbl[1].pc = "get" /\ tbl'[1].pc = "idle"
            /\ \E i \in 1..Len(rows) : rows[i].rid = Some(tbl[1].rid) /\ rows[i].gone)
          => tbl'[1].res[1].err = "SlotDeleted"]_vars

\* C23: after a successful Table::delete(rid), Table::get(rid) fails with
\* SlotDeleted, and the page holding rid has its dirty flag set and is
\* recorded in the dirty set (so that the next writeback cycle writes the
\* tombstone to storage).
C23_DeleteTombstoneDirty == GetAfterDelete /\ DeleteMarksDirty

\* the keys stored in the subtree of page pid: the keys of its leaves and
\* the separators of its inner pages
RECURSIVE KeysUnder(_, _)
KeysUnder(pgs, pid) ==
    IF pgs[pid].type = "leaf" THEN SeqElems(pgs[pid].keys)
    ELSE SeqElems(pgs[pid].keys)
             \cup UNION {KeysUnder(pgs, pgs[pid].ptrs[i]) : i \in 1..Len(pgs[pid].ptrs)}

StrictlyIncreasing(s) == \A i \in 1..(Len(s) - 1) : s[i] < s[i + 1]

InnerPages == {p \in DOMAIN pages : pages[p].type = "inner"}

\* C31: with the tree at rest after any sequence of inserts and deletes,
\* every inner page has num_keys + 1 child pointers and strictly increasing
\* separators, and every key stored under pointers[i] is >= keys[i-1] (when
\* i > 0) and < keys[i] (when i < num_keys); inner splits preserve this.
C31_InnerPagesRouted ==
    \A p \in InnerPages :
        LET page == pages[p]
        IN  /\ Len(page.ptrs) = Len(page.keys) + 1
            /\ StrictlyIncreasing(page.keys)
            /\ \A i \in 1..Len(page.ptrs) :
                   /\ page.ptrs[i] \in DOMAIN pages
                   /\ \A k \in KeysUnder(pages, page.ptrs[i]) :
                          /\ i > 1 => k >= page.keys[i - 1]
                          /\ i <= Len(page.keys) => k < page.keys[i]

\* an inner page has split (the tree has three levels) after a delete, and
\* the split left an inner page with a single pointer
C31_Witness ==
    /\ ~panicked
    /\ ndel > 0
    /\ pages[root].type = "inner"
    /\ \E c \in SeqElems(pages[root].ptrs) : pages[c].type = "inner"
    /\ \E p \in InnerPages : Len(pages[p].keys) = 0

\* the (key, value) pairs of a leaf page
PairsOf(page) == {<<page.keys[i], page.vals[i]>> : i \in 1..Len(page.keys)}

\* C32: for a full leaf (B - 1 strictly increasing keys) and a new key not in
\* it, SplitLeaf::split leaves the lower half in the original page and the
\* upper half in the right page, puts the new pair on the side it belongs
\* to and returns the first key of the right page; both pages are strictly
\* increasing, every key of the left page is < the separator <= every key
\* of the right page, and the pairs of both pages are the old pairs plus
\* the new one.
C32_SplitLeafHalves ==
    [][last.res = Some("SplitLeaf") =>
          LET leaf == FindLeaf(pages, root, last.key)
              old == pages[leaf]
              n == Len(old.keys)
              lower == (n + 1) \div 2
              rhs_page_id == NewPageId(lastPage)
              s == SplitLeafSplit(old, LeafInit, last.key, last.rid)
              lhs == pages'[leaf]
              rhs == pages'[rhs_page_id]
          IN  /\ n = BTREE_NUM_KEYS /\ StrictlyIncreasing(old.keys)
              /\ last.key \notin SeqElems(old.keys)
              /\ ~s.unreachable
              /\ lhs = SplitLeafLink(s.lhs, rhs_page_id) /\ rhs = s.rhs
              /\ SeqElems(lhs.keys) \ {last.key} = {old.keys[i] : i \in 1..lower}
              /\ SeqElems(rhs.keys) \ {last.key} = {old.keys[i] : i \in (lower + 1)..n}
              /\ s.split_key = rhs.keys[1]
              /\ (last.key \in SeqElems(lhs.keys)) = (last.key < s.split_key)
              /\ (last.key \in SeqElems(rhs.keys)) = (last.key >= s.split_key)
              /\ StrictlyIncreasing(lhs.keys) /\ StrictlyIncreasing(rhs.keys)
              /\ Len(lhs.vals) = Len(lhs.keys) /\ Len(rhs.vals) = Len(rhs.keys)
              /\ Len(lhs.keys) + Len(rhs.keys) = n + 1
              /\ \A k \in SeqElems(lhs.keys) : k < s.split_key
              /\ \A k \in SeqElems(rhs.keys) : s.split_key <= k
              /\ PairsOf(lhs) \cup PairsOf(rhs) = PairsOf(old) \cup {<<last.key, last.rid>>}
      ]_vars

\* a split has just put the new pair in the left page, in a tree that had
\* split before
C32_Witness ==
    /\ last.op = "insert" /\ last.res = Some("Ok") /\ ~panicked
    /\ \E p \in last.dirty :
           /\ pages[p].type = "leaf"
           /\ pages[p].next \in last.dirty
           /\ last.key \in SeqElems(pages[p].keys)
           /\ Len(pages[p].keys) > Len(pages[pages[p].next].keys)
    /\ pages[root].type = "inner" /\ Len(pages[root].ptrs) > 2

\* C33: BTreeLeafPage::insert on a page holding fewer than B - 1 keys puts
\* the pair at its sorted position and returns None; on a page holding
\* exactly B - 1 keys it returns a SplitHandle and leaves keys, values,
\* num_keys and next_page_id as they were, and the fast path of BTree::insert
\* then releases the leaf unmodified and not marked dirty before it enters
\* the slow path.
C33_LeafInsertOrHandle ==
    [][(~panicked /\ last.res # Some("SplitLeaf")) =>
          LET key == last'.key
              rid == last'.rid
              leaf == FindLeaf(pages, root, key)
              page == pages[leaf]
              new == pages'[leaf]
          IN  key \notin SeqElems(page.keys) =>
                  IF Len(page.keys) < BTREE_NUM_KEYS
                  THEN /\ last'.res = Some("Ok")
                       /\ StrictlyIncreasing(new.keys)
                       /\ Len(new.keys) = Len(page.keys) + 1
                       /\ Len(new.vals) = Len(new.keys)
                       /\ PairsOf(new) = PairsOf(page) \cup {<<key, rid>>}
                       /\ new.next = page.next
                       /\ \A p \in DOMAIN pages \ {leaf} : pages'[p] = pages[p]
                  ELSE /\ last'.res = Some("SplitLeaf")
                       /\ pages' = pages
                       /\ last'.dirty = {}
                       /\ \A i \in 1..Len(thr'[1].held) : thr'[1].held[i].p # leaf
      ]_vars

\* the fast path has met a full leaf that has a right neighbour and has
\* handed the insert to the slow path
C33_Witness ==
    /\ last.res = Some("SplitLeaf")
    /\ LET leaf == FindLeaf(pages, root, last.key)
       IN  /\ Len(pages[leaf].keys) = BTREE_NUM_KEYS
           /\ pages[leaf].next # PAGE_INVALID
           /\ leaf # root

\* thread t is inside a get_page miss and holds the write guard that
\* new_page_mut returned, up to the downgrade
WriteGuardOnMiss(t) ==
    cth[t].op = "get" /\ cth[t].pc \in {"new_lru", "read"}

\* C34: PageRefMut::downgrade is atomic with respect to the frame: between
\* the state in which the caller holds the write guard and the state in
\* which it holds the read guard no other thread can hold the exclusive
\* latch of the frame, pin_count stays the same and is never 0, and the
\* page does not become evictable; in get_page on a miss no other thread
\* reads the frame before read_page has filled it.
C34_DowngradeAtomic ==
    /\ [](\A t \in Threads : WriteGuardOnMiss(t) =>
             /\ cth[t].mode = "X"
             /\ pages_metadata[cth[t].idx].counter > 0
             /\ \A u \in Threads \ {t} :
                    ~(cth[u].mode # "none" /\ cth[u].idx = cth[t].idx))
    /\ [][\A t \in Threads :
             (WriteGuardOnMiss(t) /\ cth[t].pc = "read" /\ cth'[t].pc = "hold") =>
                 /\ cth'[t].mode = "S" /\ cth'[t].idx = cth[t].idx
                 /\ frames'[cth[t].idx] = disk[cth[t].page]
                 /\ pages_metadata'[cth[t].idx].counter
                        = pages_metadata[cth[t].idx].counter
                 /\ cth[t].page \notin eviction_policy.queue
                 /\ cth[t].page \notin eviction_policy'.queue
                 /\ \A u \in Threads \ {t} :
                        ~(cth'[u].mode = "X" /\ cth'[u].idx = cth[t].idx)]_vars
    /\ [](\A t \in Threads : (cth[t].pc = "hold" /\ cth[t].op = "get") =>
             /\ cth[t].mode = "S"
             /\ \A u \in Threads \ {t} :
                    ~(cth[u].mode = "X" /\ cth[u].idx = cth[t].idx))

\* a get_page miss holds the write guard of the frame read_page has still
\* to fill, while another thread that found the page in the page table
\* waits for the frame's latch
C34_Witness ==
    \E t \in Threads : \E u \in Threads \ {t} :
        /\ WriteGuardOnMiss(t) /\ cth[t].pc = "read"
        /\ cth[t].page \in DOMAIN disk
        /\ cth[u].pc = "latch" /\ cth[u].idx = cth[t].idx
        /\ cth[u].page = cth[t].page

\* the threads whose guard on frame i has pinned it and has not unpinned it yet
PinnedBy(i) ==
    {t \in Threads : /\ cth[t].idx = i
                     /\ cth[t].pc \in {"lru", "write", "hold", "wb_hold", "unpin",
                                       "new_map", "new_lru", "read"}}

\* no step fails one of the assertions on the pin counter: get_page_mut's
\* old_counter == 0, Drop for PageRefMut's old_counter == 1, remove_page's
\* get_pin_counter() == 0
NoPinAssertionFails ==
    [][\A t \in Threads :
          ~(cth[t].pc \in {"pin", "hold", "unpin", "rm_latch"}
                /\ cth'[t].pc = "panicked")]_vars

PinCountIsGuards ==
    \A i \in FrameIds : pages_metadata[i].counter = Cardinality(PinnedBy(i))

\* C35: in no interleaving of buffer-pool operations does a pin-counter
\* assertion fail: pin_count is 0 immediately before a write guard pins the
\* frame, exactly 1 when a write guard is dropped, and 0 when remove holds
\* the frame's write latch; pin_count always equals the number of live
\* guards on the frame.
C35_PinAssertionsHold == NoPinAssertionFails /\ []PinCountIsGuards

\* C36: in every reachable state every page in the LRU's evictable queue is
\* resident (has a page-table entry): no page whose frame is on the free
\* list, or which has been removed from the page table, is in the queue.
\* (A page that a remove_page in progress has taken out of the page table
\* and not yet out of the policy is not counted.)
C36_QueuedPagesResident ==
    \A p \in eviction_policy.queue :
        \/ p \in DOMAIN map
        \/ \E t \in Threads : cth[t].page = p /\ cth[t].pc \in {"rm_latch", "rm_lru"}

\* C37: in every interleaving of get_page / get_page_mut with remove_page
\* and new_page_mut, the guard returned for a request for a page refers to
\* a frame whose metadata names that page: a frame index read from the page
\* table is never used after the frame has been removed and recycled for
\* another page. (Checked for the runs in which no thread has panicked.)
C37_GuardIsForRequestedPage ==
    (\A u \in Threads : cth[u].pc # "panicked") =>
        \A t \in Threads :
            (cth[t].pc = "hold" /\ cth[t].op \in {"get", "get_mut"}) =>
                pages_metadata[cth[t].idx].page_id = cth[t].page

\* C38: in no interleaving of page-cache operations on the same storage does
\* new_page_mut hit its "page already resident" assertion: two threads that
\* miss on the same page, or a get of the last page id racing with the
\* new_page that has just allocated it, both complete without panic.
C38_NoResidencyAssertionFails ==
    [][\A t \in Threads :
          ~(cth[t].pc = "new_map" /\ cth'[t].pc = "panicked")]_vars

\* C39: when storage.read_page fails during a get_page or get_page_mut miss
\* (the fetch of page_id + 1 past the end of the file that ends a Table
\* scan), the buffer pool is left as before the call: once the call has
\* returned, the page is not resident, so every resident page is a page of
\* its storage, and a later get_page of that page id fails again instead of
\* returning a guard.
C39_FailedFetchLeavesNoTrace ==
    /\ (\A t \in Threads : cth[t].pc = "idle") =>
           \A p \in DOMAIN map : p \in DOMAIN disk /\ p \in AttachedPages
    /\ \A t \in Threads :
           (cth[t].pc = "hold" /\ cth[t].op \in {"get", "get_mut"}) =>
               cth[t].page \in DOMAIN disk

\* C40: page 0 of a heap-table storage stays reserved: no Table::insert
\* stores a tuple in page 0, so no RecordId returned by Table::insert has
\* page_id 0 (the invalid page id), the first insert into a freshly created
\* storage included.
C40_PageZeroReserved ==
    \A rid \in Returned : rid[1] # PAGE_INVALID

=============================================================================
